---- MODULE Spec2Model ----
(***************************************************************************)
(* State-machine model of the ingestion and indexing pipeline of the       *)
(* semantic-photo backend: the Drive sync job runner                       *)
(* (backend/app/services/drive_sync.py), the job queues                    *)
(* (backend/app/jobs/queue.py), the embedding worker                       *)
(* (backend/app/jobs/workers.py), the upload ingestor and the People       *)
(* endpoints (backend/app/api/photos.py), the People clusterer             *)
(* (backend/app/services/people.py) and search (backend/app/api/search.py).*)
(*                                                                         *)
(* The database is modelled at READ COMMITTED: every worker holds a        *)
(* private transaction (txn_files, txn_photos) that becomes visible to the *)
(* others only at `await db.commit()`; queue pushes are visible at once.   *)
(***************************************************************************)
EXTENDS Integers, Sequences, FiniteSets, TLC

(***************************************************************************)
(* Bounds of the model.                                                    *)
(***************************************************************************)
MaxJobs == 2         \* DriveSyncJob rows ever created
MaxFaults == 2       \* transient faults injected into sync runs (downloads, items, crashes)
MaxRedeliver == 1    \* duplicate deliveries of a sync job id by the queue
MaxPhotos == 5       \* Photo primary keys ever minted
MaxRetryFaults == 5  \* exceptions injected into the runs of RetrySpec
MaxEmbedFaults == 2  \* fetch and embedder failures injected into the embedding workers
MaxOutages == 1      \* outages of the queue backend
MaxStarts == 1       \* calls of POST /embedding/start
MaxUploadFiles == 2  \* files in one POST /upload
MaxClusters == 3     \* person_cluster tokens ever minted
MaxMemoryRuns == 3   \* completed runs of the daily memories job
MaxDays == 2         \* days the clock shows
MaxDedupCalls == 2   \* calls of POST /tools/duplicates/delete-all
MaxCount == 3        \* largest file count a caller hands to _set_progress
MaxAppended == 11    \* failures handed to _append_failure
MaxJobFailures == 2  \* of which failures of a whole run (line 946)

(***************************************************************************)
(* Program constants.                                                      *)
(***************************************************************************)
DEFAULT_BATCH_SIZE == 50
MAX_BATCH_SIZE == 100
MAX_ATTEMPTS == 5
ZIP_COMPLETION_MARKER == "__zip_completed__"

NoEntry == ""        \* source_entry_id of a plain (non-ZIP) image
NoJob == 0

Users == {"u1"}
Folders == {"f1", "f2"}
SyncWorkers == {1, 2}
EmbedWorkers == {1, 2}
JobIds == 1..MaxJobs
PhotoIds == 1..MaxPhotos

\* batch_size values a caller may hand to enqueue_drive_sync_job
RequestedBatchSizes == {0, 101}

(***************************************************************************)
(* The listing _collect_drive_files returns for a folder: plain images and *)
(* ZIP containers; `entries` are the names _extract_zip_images_to_flat_dir *)
(* accepts from a container.  z1 and z2 both hold an entry named "x"; in   *)
(* f4 a container sits between two plain images.                           *)
(***************************************************************************)
DriveListing(folder) ==
    IF folder = "f1"
    THEN << [id |-> "a",  zip |-> FALSE, entries |-> << >>],
            [id |-> "z1", zip |-> TRUE,  entries |-> <<"x", "y">>] >>
    ELSE IF folder = "f2"
    THEN << [id |-> "z2", zip |-> TRUE,  entries |-> <<"x">>] >>
    ELSE IF folder = "f3"
    THEN << [id |-> "z3", zip |-> TRUE,  entries |-> << >>],
            [id |-> "b",  zip |-> FALSE, entries |-> << >>] >>
    ELSE << [id |-> "c",  zip |-> FALSE, entries |-> << >>],
            [id |-> "z4", zip |-> TRUE,  entries |-> <<"x", "y">>],
            [id |-> "d",  zip |-> FALSE, entries |-> << >>] >>

\* a folder whose container z3 yields no accepted image entry
EmptyZipFolder == "f3"

\* a folder whose listing has a container between two plain images
ZipBetweenFolder == "f4"

AllFiles ==
    UNION {{DriveListing(f)[i] : i \in 1..Len(DriveListing(f))} :
             f \in Folders \cup {EmptyZipFolder, ZipBetweenFolder}}

Range(s) == {s[i] : i \in 1..Len(s)}

\* keys of DriveSyncFile rows: (source_file_id, source_entry_id) of the one user
FileKeys ==
    UNION {IF f.zip
           THEN {<<f.id, e>> : e \in Range(f.entries) \cup {ZIP_COMPLETION_MARKER}}
           ELSE {<<f.id, NoEntry>>} : f \in AllFiles}

VARIABLES
    jobs,             \* DriveSyncJob rows (committed): id -> [status, attempts, ...]
    drive_sync_jobs,  \* queue of sync job ids
    embedding_jobs,   \* queue of photo ids
    sync_files,       \* DriveSyncFile rows (committed): key -> state
    checkpoint,       \* DriveSyncCheckpoint.last_batch_no (committed): job -> Nat
    photos,           \* Photo rows (committed): id -> record
    next_photo,       \* next Photo primary key
    sync_state,       \* DriveSyncState of the user
    run,              \* frame of process_drive_sync_job in each sync worker
    completed_runs,   \* what each completing run published (lines 926-936)
    orphaned,         \* jobs whose worker process died while they were running
    faults,           \* faults injected so far
    redelivered,      \* duplicate deliveries so far
    embed,            \* frame of run_embedding_worker in each embedding worker
    embedding_writes, \* photo id -> number of times lines 50-52 wrote its embedding
    embed_faults,     \* fetch and embedder failures injected so far
    redis_up,         \* the queue backend accepts commands
    outages,          \* queue outages so far
    uploads,          \* the last POST /upload and its response
    starts,           \* calls of POST /embedding/start so far
    photo_tags,       \* PhotoTag rows joined with Tag (committed): photo id -> rows
    image_vector,     \* photo id -> index in Vectors of what the embedder returns for it
    next_token,       \* person_cluster tokens minted so far, plus one
    reindex,          \* frame of reindex_people_groups
    search_result,    \* the last response of GET /search
    detected,         \* the last call of detect_image_content_type and its result
    memories,         \* Memory rows (committed), in insertion order
    today,            \* the day of the year the clock shows
    memory_runs,      \* completed runs of run_daily_memories_job so far
    objects,          \* photo ids whose image and thumbnail are in the object store
    dedup_response,   \* the last response of POST /tools/duplicates/delete-all
    listing,          \* a client paging through GET /photos: what it got so far
    temp_files,       \* temp files and directories of the sync workers on disk
    sync_progress,    \* _sync_progress: user -> progress snapshot of this process
    failure_log       \* user -> every failure _append_failure was given, oldest first

syncVars == <<jobs, drive_sync_jobs, sync_files, checkpoint, sync_state, run,
              completed_runs, orphaned, faults, redelivered>>
photoVars == <<photos, next_photo, embedding_jobs>>
embedVars == <<embed, embedding_writes, embed_faults, redis_up, outages, uploads, starts>>
peopleVars == <<photo_tags, image_vector, next_token, reindex, search_result>>
memoryVars == <<memories, today, memory_runs>>
dedupVars == <<objects, dedup_response>>
progressVars == <<sync_progress, failure_log>>
serviceVars == <<detected, memoryVars, dedupVars, listing, progressVars>>
libraryVars == <<serviceVars, temp_files>>
vars == <<syncVars, photoVars, embedVars, peopleVars, libraryVars>>

NoRow == [status |-> "none", attempts |-> 0, max_attempts |-> 0, user |-> "u1",
          folder |-> "f1", batch_size |-> 0, last_error |-> "none"]
NoPhoto == [exists |-> FALSE, user |-> "u1", source |-> "", source_id |-> "",
            file |-> "", id |-> 0, embedding |-> 0, generated |-> FALSE, is_deleted |-> FALSE]
ZeroCounters == [processed |-> 0, uploaded |-> 0, skipped |-> 0, failed |-> 0]
NoChange == "-"
EmptyTxn == [k \in FileKeys |-> NoChange]

Min(a, b) == IF a < b THEN a ELSE b
Max(a, b) == IF a > b THEN a ELSE b

(***************************************************************************)
(* enqueue_drive_sync_job, line 243, and process_drive_sync_job, line 671. *)
(***************************************************************************)
ClampBatchSize(n) == Max(1, Min(n, MAX_BATCH_SIZE))

EffectiveBatchSize(stored) ==
    ClampBatchSize(IF stored = 0 THEN DEFAULT_BATCH_SIZE ELSE stored)

\* line 612: only a queued or failed job is taken
CanStart(status) == status \in {"queued", "failed"}

\* line 944: the id goes back on the queue while attempts remain
ShouldRequeue(attempts, max_attempts) == attempts < max_attempts

\* line 917: the statuses the supersede UPDATE matches
Supersedable(status) == status \in {"queued", "running", "failed"}

\* line 414
PhotoSourceId(item) == IF item.entry # NoEntry THEN item.entry ELSE item.file

ItemKey(item) == <<item.file, item.entry>>

Files(w) == DriveListing(jobs[run[w].job].folder)

(***************************************************************************)
(* The frame of a worker that runs no job.  pc is the worker's position:   *)
(* idle, auth, list, loop, zip_download, zip_fill, zip_mark, save,         *)
(* blocked, commit, complete.  needs_rollback: a flush or the COMMIT of    *)
(* the worker's session failed and db.rollback() was not called since.     *)
(***************************************************************************)
\* the frame of an embedding worker that waits on pop; pc: idle, load, fetch, embed
NoResponse == [status |-> "none", is_list |-> FALSE, len |-> 0]
IdleEmbed == [pc |-> "idle", photo |-> 0, outcome |-> "none", response |-> NoResponse]

IdleRun ==
    [pc |-> "idle", job |-> NoJob, file_idx |-> 0, pending_batch |-> << >>,
     zip_left |-> << >>, batch_no |-> 0, counters |-> ZeroCounters, resume |-> "idle",
     txn_files |-> EmptyTxn, txn_photos |-> << >>, blocked_on |-> << >>,
     clean |-> FALSE, puts |-> 0, needs_rollback |-> FALSE]

(***************************************************************************)
(* services/people.py and models/tag.py.  A Tag name is its prefix and the *)
(* rest of the name; a PhotoTag row is the tag with the row's source.      *)
(***************************************************************************)
PERSON_NAME_PREFIX == "person:"
PERSON_CLUSTER_PREFIX == "person_cluster:"

NoTag == [prefix |-> "", label |-> ""]

\* what the embedder returns for the images of the library, shortened to 4
\* coordinates; the cosines of Vectors[1] with the next three are 0.86, 0.90, 0.40;
\* Vectors[2] and Vectors[4] are apart (0.81) and Vectors[5] is near both (0.95)
Vectors ==
    << <<1, 0, 0, 0>>, <<43, 25, 5, 1>>, <<45, 21, 5, 3>>, <<20, 44, 10, 8>>,
       <<63, 69, 15, 9>> >>

\* the frame of a session that runs no reindex; pc: idle, loop
IdleReindex == [pc |-> "idle", owner |-> "", todo |-> << >>, view |-> << >>]

NoSearch == [owner |-> "", status |-> 0, items |-> {}]

\* no POST /upload was made yet
NoUpload == [files |-> << >>, storage_up |-> TRUE, error |-> "none",
             uploaded |-> 0, skipped |-> 0, failed |-> 0]

(***************************************************************************)
(* Initial state: empty tables, empty queues, idle workers.                *)
(***************************************************************************)
NoDetection == [filename |-> "", file_bytes |-> << >>, called |-> FALSE, result |-> ""]

\* nothing has been asked of the library services yet
\* the date the clock shows when the model starts: a day of the year, in CurrentYear
FirstDay == 305
CurrentYear == 2026

NoDedup == [owner |-> "", deleted |-> 0, call |-> 0]
NoCursor == [dt |-> "", id |-> ""]
NoListing == [owner |-> "", limit |-> 0, pages |-> 0, last_page |-> << >>, items |-> << >>,
              next_cursor |-> NoCursor, status |-> 0]

\* lines 43-66: the fields of the snapshot that _set_progress computes with
_progress_template ==
    [status |-> "idle", progress_percent |-> 0, total_files |-> 0, processed_files |-> 0,
     recent_failures |-> << >>]

NoRequests ==
    /\ detected = NoDetection
    /\ memories = << >>
    /\ today = FirstDay
    /\ memory_runs = 0
    /\ objects = {}
    /\ dedup_response = NoDedup
    /\ listing = NoListing
    /\ temp_files = {}
    /\ sync_progress = [u \in Users |-> _progress_template]
    /\ failure_log = [u \in Users |-> << >>]

NoActivity ==
    /\ jobs = [j \in JobIds |-> NoRow]
    /\ drive_sync_jobs = << >>
    /\ sync_files = [k \in FileKeys |-> "none"]
    /\ checkpoint = [j \in JobIds |-> 0]
    /\ sync_state = [sync_enabled |-> TRUE, folder_id |-> "", last_error |-> "none",
                     synced |-> FALSE]
    /\ run = [w \in SyncWorkers |-> IdleRun]
    /\ completed_runs = {}
    /\ orphaned = {}
    /\ faults = 0
    /\ redelivered = 0
    /\ embed = [w \in EmbedWorkers |-> IdleEmbed]
    /\ embedding_writes = [p \in PhotoIds |-> 0]
    /\ embed_faults = 0
    /\ redis_up = TRUE
    /\ outages = 0
    /\ uploads = NoUpload
    /\ starts = 0
    /\ photo_tags = [p \in PhotoIds |-> {}]
    /\ next_token = 1
    /\ reindex = IdleReindex
    /\ search_result = NoSearch

Init ==
    /\ NoActivity
    /\ NoRequests
    /\ embedding_jobs = << >>
    /\ photos = [p \in PhotoIds |-> NoPhoto]
    /\ next_photo = 1
    /\ image_vector = [p \in PhotoIds |-> 1]

(***************************************************************************)
(* The job queue of sync job ids.  The worker loop that pops it and        *)
(* push_drive_sync_job are not in backend/app/jobs/queue.py; they follow   *)
(* section 4.4: a FIFO list, push appends, pop takes the head.             *)
(***************************************************************************)
push_drive_sync_job(queue, job_id) == IF redis_up THEN Append(queue, job_id) ELSE queue

\* variant: an ordinary push goes to the head of the list
push_embedding_job_Lpush(queue, photo_id) == IF redis_up THEN <<photo_id>> \o queue ELSE queue

\* queue.py lines 25-33: rpush; a RedisError is swallowed and the id is not queued
push_embedding_job(queue, photo_id) == IF redis_up THEN Append(queue, photo_id) ELSE queue

RECURSIVE PushAll(_, _)
PushAll(queue, ids) ==
    IF ids = << >> THEN queue
    ELSE PushAll(push_embedding_job(queue, Head(ids)), Tail(ids))

SetRun(w, r) == run' = [run EXCEPT ![w] = r]

(***************************************************************************)
(* enqueue_drive_sync_job (lines 216-258): reuse the queued or running job *)
(* of (user, folder), else insert a queued row and push its id.            *)
(***************************************************************************)
ActiveJobs(user, folder) ==
    {j \in JobIds : /\ jobs[j].status \in {"queued", "running"}
                    /\ jobs[j].user = user
                    /\ jobs[j].folder = folder}

FreshJobIds == {j \in JobIds : jobs[j].status = "none"}

EnqueueJob(user, folder, batch_size) ==
    /\ FreshJobIds # {}
    /\ IF ActiveJobs(user, folder) # {}
       THEN UNCHANGED <<jobs, drive_sync_jobs>>
       ELSE LET j == CHOOSE x \in FreshJobIds : \A y \in FreshJobIds : x <= y IN
            /\ jobs' = [jobs EXCEPT ![j] =
                          [status |-> "queued", attempts |-> 0,
                           max_attempts |-> MAX_ATTEMPTS, user |-> user,
                           folder |-> folder,
                           batch_size |-> ClampBatchSize(batch_size),
                           last_error |-> "none"]]
            /\ drive_sync_jobs' = push_drive_sync_job(drive_sync_jobs, j)

enqueue_drive_sync_job(user, folder, batch_size) ==
    /\ EnqueueJob(user, folder, batch_size)
    /\ UNCHANGED <<libraryVars, peopleVars, sync_files, checkpoint, sync_state, run, completed_runs, orphaned,
                   faults, redelivered, photoVars, embedVars>>

(***************************************************************************)
(* The queue delivers a job id a second time (section 4.4: delivery is not *)
(* at most once).                                                          *)
(***************************************************************************)
Redeliver(j) ==
    /\ redelivered < MaxRedeliver
    /\ jobs[j].status # "none"
    /\ drive_sync_jobs' = push_drive_sync_job(drive_sync_jobs, j)
    /\ redelivered' = redelivered + 1
    /\ UNCHANGED <<libraryVars, peopleVars, jobs, sync_files, checkpoint, sync_state, run, completed_runs,
                   orphaned, faults, photoVars, embedVars>>

\* every DriveSyncFile row of the folder, entries and markers, is completed
FolderKeys(folder) ==
    UNION {IF f.zip
           THEN {<<f.id, e>> : e \in Range(f.entries) \cup {ZIP_COMPLETION_MARKER}}
           ELSE {<<f.id, NoEntry>>} : f \in Range(DriveListing(folder))}

FullyIngested(folder) == \A k \in FolderKeys(folder) : sync_files[k] = "completed"

(***************************************************************************)
(* process_drive_sync_job, lines 605-619: a popped id whose job is not     *)
(* queued or failed is dropped; else the job is taken: running, attempts   *)
(* + 1, commit.                                                            *)
(***************************************************************************)
StartJob(w) ==
    /\ run[w].pc = "idle"
    /\ \A v \in SyncWorkers : v < w => run[v].pc # "idle"  \* idle workers are alike
    /\ drive_sync_jobs # << >>
    /\ LET j == Head(drive_sync_jobs) IN
       /\ drive_sync_jobs' = Tail(drive_sync_jobs)
       /\ IF CanStart(jobs[j].status)
          THEN /\ jobs' = [jobs EXCEPT ![j].status = "running",
                                       ![j].attempts = @ + 1]
               /\ SetRun(w, [IdleRun EXCEPT !.pc = "auth", !.job = j,
                                            !.clean = FullyIngested(jobs[j].folder)])
          ELSE UNCHANGED <<jobs, run>>
    /\ UNCHANGED <<libraryVars, peopleVars, sync_files, checkpoint, sync_state, completed_runs, orphaned, faults,
                   redelivered, photoVars, embedVars>>

(***************************************************************************)
(* Lines 636-667: the OAuth link and the folder are looked up and the      *)
(* access token is refreshed.  A missing link or folder fails the job; a   *)
(* failed refresh also disables sync.  Neither pushes the id back.         *)
(***************************************************************************)
AuthOk(w) ==
    /\ run[w].pc = "auth"
    /\ SetRun(w, [run[w] EXCEPT !.pc = "list"])
    /\ UNCHANGED <<libraryVars, peopleVars, jobs, drive_sync_jobs, sync_files, checkpoint, sync_state,
                   completed_runs, orphaned, faults, redelivered, photoVars, embedVars>>

AuthFails(w, refresh) ==
    /\ run[w].pc = "auth"
    /\ faults < MaxFaults
    /\ faults' = faults + 1
    /\ jobs' = [jobs EXCEPT ![run[w].job].status = "failed",
                            ![run[w].job].last_error =
                               IF refresh THEN "disconnected" ELSE "not found"]
    /\ sync_state' = IF refresh
                     THEN [sync_state EXCEPT !.sync_enabled = FALSE,
                                             !.last_error = "disconnected"]
                     ELSE sync_state
    /\ SetRun(w, IdleRun)
    /\ UNCHANGED <<libraryVars, peopleVars, drive_sync_jobs, sync_files, checkpoint, completed_runs, orphaned,
                   redelivered, photoVars, embedVars>>

\* lines 676-691: the listing succeeded
ListFiles(w) ==
    /\ run[w].pc = "list"
    /\ SetRun(w, [run[w] EXCEPT !.pc = "loop", !.file_idx = 1])
    /\ UNCHANGED <<libraryVars, peopleVars, jobs, drive_sync_jobs, sync_files, checkpoint, sync_state,
                   completed_runs, orphaned, faults, redelivered, photoVars, embedVars>>

\* inside the try of the ZIP branch (lines 764-853): the commit_pending_batch calls of
\* lines 817 and 820, which return to the entry loop or to the marker
InZipTry(r) == r.resume \in {"zip_fill", "zip_mark"}

\* the worker is about to send a statement on a session that needs a rollback: the SELECT of
\* _is_zip_already_completed (line 735), of _upsert_sync_file (line 277), or the UPDATE
\* of line 911
AtStatement(w) ==
    /\ run[w].needs_rollback
    /\ \/ run[w].pc \in {"save", "complete"}
       \/ /\ run[w].pc = "loop"
          /\ run[w].file_idx <= Len(Files(w))
          /\ Files(w)[run[w].file_idx].zip

\* variant: the batch pending before a container is not committed first
AfterCommitCall_NoPreZipCommit(r, next) ==
    IF r.pending_batch # << >> /\ next # "zip_download"
    THEN [r EXCEPT !.pc = "save", !.resume = next]
    ELSE [r EXCEPT !.pc = next]

\* commit_pending_batch of an empty batch returns at once (line 695)
AfterCommitCall(r, next) ==
    IF r.pending_batch # << >>
    THEN [r EXCEPT !.pc = "save", !.resume = next]
    ELSE [r EXCEPT !.pc = next]

\* variant: the marker row is never found
IsZipAlreadyCompleted_NoMarker(file_id) ==
    sync_files[<<file_id, ZIP_COMPLETION_MARKER>>] = "marker"

\* _is_zip_already_completed (lines 302-316)
IsZipAlreadyCompleted(file_id) ==
    sync_files[<<file_id, ZIP_COMPLETION_MARKER>>] = "completed"

(***************************************************************************)
(* One turn of `for file_data in files` (lines 726-905) up to the next     *)
(* commit: a completed container is skipped, another container first       *)
(* commits the pending batch, a plain image is downloaded and appended.    *)
(***************************************************************************)
LoopStep(w) ==
    /\ run[w].pc = "loop"
    /\ ~AtStatement(w)
    /\ LET r == run[w]
           fs == Files(w)
           i == r.file_idx
           size == EffectiveBatchSize(jobs[r.job].batch_size)
       IN IF i > Len(fs)
          THEN SetRun(w, AfterCommitCall(r, "complete"))
          ELSE IF fs[i].zip
          THEN IF IsZipAlreadyCompleted(fs[i].id)
               THEN SetRun(w, [r EXCEPT !.counters.skipped = @ + 1,
                                        !.file_idx = i + 1])
               ELSE SetRun(w, AfterCommitCall(r, "zip_download"))
          ELSE LET appended == [r EXCEPT
                      !.pending_batch = Append(@, [file |-> fs[i].id, entry |-> NoEntry]),
                      !.file_idx = i + 1]
               IN SetRun(w, IF Len(appended.pending_batch) >= size
                            THEN AfterCommitCall(appended, "loop")
                            ELSE appended)
    /\ UNCHANGED <<libraryVars, peopleVars, jobs, drive_sync_jobs, sync_files, checkpoint, sync_state,
                   completed_runs, orphaned, faults, redelivered, photoVars, embedVars>>

\* the owner of the temp files of a process that died
NoWorker == 0

\* the temp files of a worker's run
TempOf(w) == {t \in temp_files : t.worker = w}

\* lines 771-793 and 582-590: the downloaded ZIP file, the extraction directory and a
\* file per accepted entry; the temp file of a nested ZIP is unlinked before
\* _extract_zip_images_to_flat_dir returns (lines 558-560)
ExtractedTemp(w, f) ==
    {[worker |-> w, kind |-> "zip_path", file |-> f.id, entry |-> NoEntry],
     [worker |-> w, kind |-> "extract_dir", file |-> f.id, entry |-> NoEntry]}
    \cup {[worker |-> w, kind |-> "entry_path", file |-> f.id, entry |-> e] :
             e \in Range(f.entries)}

\* variant: only the downloaded ZIP file is unlinked
Cleanup_ZipOnly(w) == temp_files \ {t \in TempOf(w) : t.kind = "zip_path"}

\* lines 859-863: the finally of the ZIP branch removes the extraction directory with
\* what is in it and the downloaded ZIP file
Cleanup(w) == temp_files \ TempOf(w)

\* _save_batch_photos unlinks the file of every item: skipped (line 381), saved or
\* failed (lines 437-439)
UnlinkBatch(w) ==
    temp_files \ {t \in TempOf(w) :
                     /\ t.kind = "entry_path"
                     /\ [file |-> t.file, entry |-> t.entry] \in Range(run[w].pending_batch)}

\* lines 771-793: the container is downloaded and unpacked
ZipDownload(w) ==
    /\ run[w].pc = "zip_download"
    /\ SetRun(w, [run[w] EXCEPT !.pc = "zip_fill",
                                !.zip_left = Files(w)[run[w].file_idx].entries])
    /\ temp_files' = temp_files \cup ExtractedTemp(w, Files(w)[run[w].file_idx])
    /\ UNCHANGED <<serviceVars, peopleVars, jobs, drive_sync_jobs, sync_files, checkpoint, sync_state,
                   completed_runs, orphaned, faults, redelivered, photoVars, embedVars>>

\* lines 855-864: a download or unpack error is caught, counted, and the loop goes on
ZipFails(w) ==
    /\ run[w].pc = "zip_download"
    /\ faults < MaxFaults
    /\ faults' = faults + 1
    /\ SetRun(w, [run[w] EXCEPT !.pc = "loop", !.counters.failed = @ + 1,
                                !.file_idx = @ + 1])
    /\ UNCHANGED <<libraryVars, peopleVars, jobs, drive_sync_jobs, sync_files, checkpoint, sync_state,
                   completed_runs, orphaned, redelivered, photoVars, embedVars>>

(***************************************************************************)
(* Lines 804-820: entries are appended until the batch is full (commit,    *)
(* then go on) or the container is exhausted (commit the rest, then mark). *)
(***************************************************************************)
ZipFill(w) ==
    /\ run[w].pc = "zip_fill"
    /\ LET r == run[w]
           size == EffectiveBatchSize(jobs[r.job].batch_size)
           n == Min(size - Len(r.pending_batch), Len(r.zip_left))
           file_id == Files(w)[r.file_idx].id
           moved == [k \in 1..n |-> [file |-> file_id, entry |-> r.zip_left[k]]]
           filled == [r EXCEPT !.pending_batch = @ \o moved,
                               !.zip_left = SubSeq(@, n + 1, Len(@))]
       IN SetRun(w, IF Len(filled.pending_batch) >= size
                    THEN AfterCommitCall(filled, "zip_fill")
                    ELSE AfterCommitCall(filled, "zip_mark"))
    /\ UNCHANGED <<libraryVars, peopleVars, jobs, drive_sync_jobs, sync_files, checkpoint, sync_state,
                   completed_runs, orphaned, faults, redelivered, photoVars, embedVars>>

\* variant: a container without accepted entries is not counted
ZipMark_EmptyNotCounted(w) ==
    /\ run[w].pc = "zip_mark"
    /\ LET r == run[w]
           f == Files(w)[r.file_idx]
       IN /\ sync_files' = [sync_files EXCEPT ![<<f.id, ZIP_COMPLETION_MARKER>>] = "completed"]
          /\ SetRun(w, [r EXCEPT !.pc = "loop", !.file_idx = @ + 1])
    /\ temp_files' = Cleanup(w)
    /\ UNCHANGED <<serviceVars, peopleVars, jobs, drive_sync_jobs, checkpoint, sync_state, completed_runs,
                   orphaned, faults, redelivered, photoVars, embedVars>>

\* lines 821-853 and _mark_zip_completed: count an empty container, write the marker, commit
ZipMark(w) ==
    /\ run[w].pc = "zip_mark"
    /\ LET r == run[w]
           f == Files(w)[r.file_idx]
       IN /\ sync_files' = [sync_files EXCEPT ![<<f.id, ZIP_COMPLETION_MARKER>>] = "completed"]
          /\ SetRun(w, [r EXCEPT !.pc = "loop", !.file_idx = @ + 1,
                                 !.counters.failed = IF Len(f.entries) = 0 THEN @ + 1 ELSE @])
    /\ temp_files' = Cleanup(w)
    /\ UNCHANGED <<serviceVars, peopleVars, jobs, drive_sync_jobs, checkpoint, sync_state, completed_runs,
                   orphaned, faults, redelivered, photoVars, embedVars>>

(***************************************************************************)
(* _save_batch_photos (lines 343-457), called by commit_pending_batch      *)
(* after batch_no += 1.  Per item: the DriveSyncFile row is looked up or   *)
(* inserted; a completed row counts as skipped; else the photo is hashed,  *)
(* thumbnailed and put to the object store, and the row becomes completed, *)
(* or failed when that raises.  Then the photos are flushed and their ids  *)
(* pushed onto embedding_jobs.  Nothing is committed yet.                  *)
(***************************************************************************)
RowState(r, k) == IF r.txn_files[k] # NoChange THEN r.txn_files[k] ELSE sync_files[k]

BatchKeys(r) == {ItemKey(r.pending_batch[i]) : i \in 1..Len(r.pending_batch)}

\* rows this batch must insert while another open transaction has inserted them:
\* the INSERT waits on the unique index uq_drive_sync_file_source
BlockingKeys(w) ==
    {k \in BatchKeys(run[w]) :
        /\ sync_files[k] = "none"
        /\ \E v \in SyncWorkers \ {w} : run[v].txn_files[k] # NoChange}

\* variant: the extracted files outlive the handler of the container
Unreadable_Never(w) == {}

\* the items of the pending batch that line 385 must read from an extracted file which is
\* no longer on disk
Unreadable(w) ==
    {i \in 1..Len(run[w].pending_batch) :
        LET item == run[w].pending_batch[i] IN
        /\ item.entry # NoEntry
        /\ RowState(run[w], ItemKey(item)) # "completed"
        /\ [worker |-> w, kind |-> "entry_path", file |-> item.file, entry |-> item.entry]
              \notin temp_files}

NewPhoto(id, user, item) ==
    [exists |-> TRUE, id |-> id, user |-> user, source |-> "google_drive",
     source_id |-> PhotoSourceId(item), file |-> item.file, embedding |-> 0,
     generated |-> FALSE, is_deleted |-> FALSE]

SaveBatch(w) ==
    /\ run[w].pc = "save"
    /\ ~run[w].needs_rollback
    /\ BlockingKeys(w) = {}
    /\ Unreadable(w) = {}
    /\ LET r == run[w]
           items == r.pending_batch
           skip == {i \in 1..Len(items) : RowState(r, ItemKey(items[i])) = "completed"}
           todo == (1..Len(items)) \ skip
       IN \E bad \in SUBSET todo :
            LET ok == todo \ bad
                rank(i) == Cardinality({k \in ok : k < i})
                inserted == [n \in 1..Cardinality(ok) |->
                               LET i == CHOOSE k \in ok : rank(k) = n - 1 IN
                               NewPhoto(next_photo + n - 1, jobs[r.job].user, items[i])]
                ids == [n \in 1..Len(inserted) |-> next_photo + n - 1]
            IN /\ faults + Cardinality(bad) <= MaxFaults
               /\ next_photo + Cardinality(ok) - 1 <= MaxPhotos
               /\ faults' = faults + Cardinality(bad)
               /\ next_photo' = next_photo + Cardinality(ok)
               /\ embedding_jobs' = PushAll(embedding_jobs, ids)
               /\ SetRun(w, [r EXCEPT
                     !.pc = "commit",
                     !.batch_no = @ + 1,
                     !.counters.skipped = @ + Cardinality(skip),
                     !.counters.uploaded = @ + Cardinality(ok),
                     !.counters.failed = @ + Cardinality(bad),
                     !.puts = @ + Cardinality(ok),
                     !.txn_photos = @ \o inserted,
                     !.txn_files = [k \in FileKeys |->
                        IF \E i \in ok : ItemKey(items[i]) = k THEN "completed"
                        ELSE IF \E i \in bad : ItemKey(items[i]) = k THEN "failed"
                        ELSE @[k]]])
    /\ temp_files' = UnlinkBatch(w)
    /\ UNCHANGED <<serviceVars, peopleVars, jobs, drive_sync_jobs, sync_files, checkpoint, sync_state,
                   completed_runs, orphaned, redelivered, photos, embedVars>>

\* the INSERT of _upsert_sync_file (line 298) waits for the other transaction
SaveBlocked(w) ==
    /\ run[w].pc = "save"
    /\ ~run[w].needs_rollback
    /\ BlockingKeys(w) # {}
    /\ \E k \in BlockingKeys(w) : SetRun(w, [run[w] EXCEPT !.pc = "blocked", !.blocked_on = k])
    /\ UNCHANGED <<libraryVars, peopleVars, jobs, drive_sync_jobs, sync_files, checkpoint, sync_state,
                   completed_runs, orphaned, faults, redelivered, photoVars, embedVars>>

\* the other transaction rolled back: the INSERT goes through
Unblock(w) ==
    /\ run[w].pc = "blocked"
    /\ sync_files[run[w].blocked_on] = "none"
    /\ \A v \in SyncWorkers \ {w} : run[v].txn_files[run[w].blocked_on] = NoChange
    /\ SetRun(w, [run[w] EXCEPT !.pc = "save", !.blocked_on = << >>])
    /\ UNCHANGED <<libraryVars, peopleVars, jobs, drive_sync_jobs, sync_files, checkpoint, sync_state,
                   completed_runs, orphaned, faults, redelivered, photoVars, embedVars>>

(***************************************************************************)
(* commit_pending_batch after _save_batch_photos (lines 705-713): the      *)
(* counters go onto the job row and the transaction commits.               *)
(***************************************************************************)
CommitBatch(w) ==
    /\ run[w].pc = "commit"
    /\ LET r == run[w] IN
       /\ sync_files' = [k \in FileKeys |->
                           IF r.txn_files[k] # NoChange THEN r.txn_files[k] ELSE sync_files[k]]
       /\ photos' = [p \in PhotoIds |->
                       IF \E n \in 1..Len(r.txn_photos) : r.txn_photos[n].id = p
                       THEN [x \in DOMAIN NoPhoto |->
                              (CHOOSE q \in Range(r.txn_photos) : q.id = p)[x]]
                       ELSE photos[p]]
       /\ checkpoint' = [checkpoint EXCEPT ![r.job] = r.batch_no]
       /\ sync_state' = [sync_state EXCEPT !.synced = TRUE]
       /\ SetRun(w, [r EXCEPT !.pc = r.resume, !.resume = "idle",
                              !.counters.processed = @ + Len(r.pending_batch),
                              !.pending_batch = << >>,
                              !.txn_files = EmptyTxn, !.txn_photos = << >>])
    /\ UNCHANGED <<libraryVars, peopleVars, jobs, drive_sync_jobs, completed_runs, orphaned, faults, redelivered,
                   next_photo, embedding_jobs, embedVars>>

(***************************************************************************)
(* Lines 907-937: the job becomes completed, the supersede UPDATE cancels  *)
(* its siblings, both commit together, and the counters are published.     *)
(***************************************************************************)
Siblings(j) ==
    {k \in JobIds \ {j} : /\ jobs[k].status # "none"
                          /\ jobs[k].user = jobs[j].user
                          /\ jobs[k].folder = jobs[j].folder}

Complete(w) ==
    /\ run[w].pc = "complete"
    /\ ~run[w].needs_rollback
    /\ LET r == run[w]
           j == r.job
       IN /\ jobs' = [k \in JobIds |->
                        IF k = j THEN [jobs[k] EXCEPT !.status = "completed"]
                        ELSE IF k \in Siblings(j) /\ Supersedable(jobs[k].status)
                        THEN [jobs[k] EXCEPT !.status = "cancelled",
                                             !.last_error = "superseded"]
                        ELSE jobs[k]]
          /\ sync_state' = [sync_state EXCEPT !.last_error = "none"]
          /\ completed_runs' = completed_runs \cup
                {[job |-> j, clean |-> r.clean, uploaded |-> r.counters.uploaded,
                  skipped |-> r.counters.skipped, failed |-> r.counters.failed,
                  puts |-> r.puts]}
    /\ SetRun(w, IdleRun)
    /\ UNCHANGED <<libraryVars, peopleVars, drive_sync_jobs, sync_files, checkpoint, orphaned, faults,
                   redelivered, photoVars, embedVars>>

(***************************************************************************)
(* The handler of line 938: roll back, mark the job failed, commit, and    *)
(* push the id back while attempts remain.                                 *)
(***************************************************************************)
FailJob(w) ==
    /\ jobs' = [jobs EXCEPT ![run[w].job].status = "failed",
                            ![run[w].job].last_error = "exception"]
    /\ drive_sync_jobs' =
          IF ShouldRequeue(jobs[run[w].job].attempts, jobs[run[w].job].max_attempts)
          THEN push_drive_sync_job(drive_sync_jobs, run[w].job)
          ELSE drive_sync_jobs
    /\ SetRun(w, IdleRun)

(***************************************************************************)
(* The handler of the ZIP branch (lines 855-863) catches what the branch   *)
(* raises: the container counts as failed, its temp files are removed and  *)
(* the loop goes on with the next file.  Nothing is rolled back and        *)
(* pending_batch keeps what commit_pending_batch had not cleared.          *)
(***************************************************************************)
ZipCaught(w, r) ==
    /\ SetRun(w, [r EXCEPT !.pc = "loop", !.resume = "idle", !.file_idx = @ + 1,
                           !.zip_left = << >>, !.blocked_on = << >>,
                           !.counters.failed = @ + 1])
    /\ UNCHANGED <<jobs, drive_sync_jobs>>

\* the session after a failed flush or COMMIT: the database has dropped the transaction,
\* the session raises on every statement until db.rollback()
Failed(r) == [r EXCEPT !.needs_rollback = TRUE, !.txn_files = EmptyTxn, !.txn_photos = << >>]

\* the listing (line 677), the download of a plain image (line 877) or a commit raises
RaisesHere(w) ==
    \/ run[w].pc \in {"list", "commit"}
    \/ /\ run[w].pc = "loop"
       /\ run[w].file_idx <= Len(Files(w))
       /\ ~Files(w)[run[w].file_idx].zip

Raise(w, limit) ==
    /\ RaisesHere(w)
    /\ faults < limit
    /\ faults' = faults + 1
    /\ IF run[w].pc = "commit" /\ InZipTry(run[w])
       THEN \* line 713 raised after line 706 cleared pending_batch
            ZipCaught(w, Failed([run[w] EXCEPT
                                   !.counters.processed = @ + Len(run[w].pending_batch),
                                   !.pending_batch = << >>]))
       ELSE FailJob(w)
    /\ temp_files' = Cleanup(w)
    /\ UNCHANGED <<serviceVars, peopleVars, sync_files, checkpoint, sync_state, completed_runs, orphaned,
                   redelivered, photoVars, embedVars>>

\* the other transaction committed the row: the waiting INSERT violates the unique index
IntegrityError(w) ==
    /\ run[w].pc = "blocked"
    /\ sync_files[run[w].blocked_on] # "none"
    /\ IF InZipTry(run[w]) THEN ZipCaught(w, Failed(run[w])) ELSE FailJob(w)
    /\ temp_files' = Cleanup(w)
    /\ UNCHANGED <<serviceVars, peopleVars, sync_files, checkpoint, sync_state, completed_runs, orphaned, faults,
                   redelivered, photoVars, embedVars>>

\* a statement on a session that needs a rollback raises outside the ZIP branch
SessionRaises(w) ==
    /\ AtStatement(w)
    /\ FailJob(w)
    /\ temp_files' = Cleanup(w)
    /\ UNCHANGED <<serviceVars, peopleVars, sync_files, checkpoint, sync_state, completed_runs, orphaned, faults,
                   redelivered, photoVars, embedVars>>

(***************************************************************************)
(* Line 385 raises inside _save_batch_photos: the extracted file of item k *)
(* cannot be read.  The items before k were handled (here without          *)
(* failures): their rows are completed in the session and their objects    *)
(* are stored, but photos_to_insert is lost with the frame and nothing was *)
(* flushed or pushed.  Inside the ZIP branch the handler of line 855       *)
(* catches it; outside, the handler of line 938 rolls back.  The read      *)
(* fails when the file is gone, or as an injected fault.                   *)
(***************************************************************************)
SaveRaises(w) ==
    /\ run[w].pc = "save"
    /\ ~run[w].needs_rollback
    /\ BlockingKeys(w) = {}
    /\ LET r == run[w]
           items == r.pending_batch
           todo == {i \in 1..Len(items) : RowState(r, ItemKey(items[i])) # "completed"}
           gone == Unreadable(w)
       IN \E k \in IF gone # {} THEN {CHOOSE i \in gone : \A j \in gone : i <= j}
                    ELSE {i \in todo : items[i].entry # NoEntry} :
            LET before == {i \in 1..Len(items) : i < k}
                ok == before \cap todo
                read == [r EXCEPT
                           !.batch_no = @ + 1,
                           !.counters.skipped = @ + Cardinality(before \ todo),
                           !.counters.uploaded = @ + Cardinality(ok),
                           !.puts = @ + Cardinality(ok),
                           !.txn_files = [key \in FileKeys |->
                              IF \E i \in ok : ItemKey(items[i]) = key THEN "completed"
                              ELSE @[key]]]
            IN /\ IF gone # {} THEN faults' = faults
                  ELSE faults < MaxFaults /\ faults' = faults + 1
               /\ IF InZipTry(r) THEN ZipCaught(w, read) ELSE FailJob(w)
    /\ temp_files' = Cleanup(w)
    /\ UNCHANGED <<serviceVars, peopleVars, sync_files, checkpoint, sync_state, completed_runs, orphaned,
                   redelivered, photoVars, embedVars>>

(***************************************************************************)
(* The worker process dies inside a run: the open transaction is lost, no  *)
(* handler runs, the job row keeps what was committed.                     *)
(***************************************************************************)
Crash(w) ==
    /\ run[w].pc # "idle"
    /\ faults < MaxFaults
    /\ faults' = faults + 1
    /\ orphaned' = orphaned \cup {run[w].job}
    /\ SetRun(w, IdleRun)
    /\ temp_files' = (temp_files \ TempOf(w))
                      \cup {[t EXCEPT !.worker = NoWorker] : t \in TempOf(w)}
    /\ UNCHANGED <<serviceVars, peopleVars, jobs, drive_sync_jobs, sync_files, checkpoint, sync_state,
                   completed_runs, redelivered, photoVars, embedVars>>

SyncWorkerStep(w) ==
    \/ StartJob(w)
    \/ AuthOk(w)
    \/ \E refresh \in BOOLEAN : AuthFails(w, refresh)
    \/ ListFiles(w)
    \/ LoopStep(w)
    \/ ZipDownload(w)
    \/ ZipFails(w)
    \/ ZipFill(w)
    \/ ZipMark(w)
    \/ SaveBatch(w)
    \/ SaveBlocked(w)
    \/ Unblock(w)
    \/ CommitBatch(w)
    \/ Complete(w)
    \/ Raise(w, MaxFaults)
    \/ IntegrityError(w)
    \/ SessionRaises(w)
    \/ Crash(w)

Next ==
    \/ \E u \in Users, f \in Folders : enqueue_drive_sync_job(u, f, DEFAULT_BATCH_SIZE)
    \/ \E j \in JobIds : Redeliver(j)
    \/ \E w \in SyncWorkers : SyncWorkerStep(w)

Spec == Init /\ [][Next]_vars

(***************************************************************************)
(* RetrySpec: one worker, one folder, and enough exceptions to exhaust a   *)
(* job's attempts.                                                         *)
(***************************************************************************)
RetryWorkerStep(w) ==
    \/ StartJob(w)
    \/ AuthOk(w)
    \/ \E refresh \in BOOLEAN : AuthFails(w, refresh)
    \/ ListFiles(w)
    \/ LoopStep(w)
    \/ ZipDownload(w)
    \/ ZipFails(w)
    \/ ZipFill(w)
    \/ ZipMark(w)
    \/ SaveBatch(w)
    \/ CommitBatch(w)
    \/ Complete(w)
    \/ Raise(w, MaxRetryFaults)
    \/ SessionRaises(w)
    \/ Crash(w)

RetryNext ==
    \/ \E b \in RequestedBatchSizes : enqueue_drive_sync_job("u1", "f1", b)
    \/ \E j \in JobIds : Redeliver(j)
    \/ RetryWorkerStep(1)

RetrySpec == Init /\ [][RetryNext]_vars

(***************************************************************************)
(* ResyncSpec: one worker syncs the folders again and again, with faults.  *)
(***************************************************************************)
ResyncWorkerStep(w) ==
    \/ StartJob(w)
    \/ AuthOk(w)
    \/ \E refresh \in BOOLEAN : AuthFails(w, refresh)
    \/ ListFiles(w)
    \/ LoopStep(w)
    \/ ZipDownload(w)
    \/ ZipFails(w)
    \/ ZipFill(w)
    \/ ZipMark(w)
    \/ SaveBatch(w)
    \/ CommitBatch(w)
    \/ Complete(w)
    \/ Raise(w, MaxFaults)
    \/ SessionRaises(w)
    \/ Crash(w)

ResyncNext ==
    \/ \E f \in Folders, b \in RequestedBatchSizes :
          enqueue_drive_sync_job("u1", f, b)
    \/ ResyncWorkerStep(1)

ResyncSpec == Init /\ [][ResyncNext]_vars

(***************************************************************************)
(* EmptyZipSpec: one worker syncs, again and again, the folder whose       *)
(* container holds no image.                                               *)
(***************************************************************************)
EmptyZipWorkerStep(w) ==
    \/ StartJob(w)
    \/ AuthOk(w)
    \/ \E refresh \in BOOLEAN : AuthFails(w, refresh)
    \/ ListFiles(w)
    \/ LoopStep(w)
    \/ ZipDownload(w)
    \/ ZipFails(w)
    \/ ZipFill(w)
    \/ ZipMark(w)
    \/ SaveBatch(w)
    \/ CommitBatch(w)
    \/ Complete(w)
    \/ Raise(w, MaxFaults)
    \/ Crash(w)

EmptyZipNext ==
    \/ \E b \in RequestedBatchSizes : enqueue_drive_sync_job("u1", EmptyZipFolder, b)
    \/ EmptyZipWorkerStep(1)

(***************************************************************************)
(* ZipFaultSpec: one worker syncs, again and again, the folder whose       *)
(* container sits between two plain images, while batches raise part-way,  *)
(* items fail, commits fail and the process dies.                          *)
(***************************************************************************)
ZipFaultWorkerStep(w) ==
    \/ StartJob(w)
    \/ AuthOk(w)
    \/ ListFiles(w)
    \/ LoopStep(w)
    \/ ZipDownload(w)
    \/ ZipFails(w)
    \/ ZipFill(w)
    \/ ZipMark(w)
    \/ SaveBatch(w)
    \/ SaveRaises(w)
    \/ CommitBatch(w)
    \/ Complete(w)
    \/ Raise(w, MaxFaults)
    \/ SessionRaises(w)
    \/ Crash(w)

ZipFaultNext ==
    \/ \E b \in RequestedBatchSizes : enqueue_drive_sync_job("u1", ZipBetweenFolder, b)
    \/ ZipFaultWorkerStep(1)

ZipFaultSpec == Init /\ [][ZipFaultNext]_vars

EmptyZipSpec == Init /\ [][EmptyZipNext]_vars

(***************************************************************************)
(* The scheduler's fan-out and POST /sync/folder.                          *)
(***************************************************************************)
\* variant: the fan-out does not look at sync_enabled
sync_all_users_Everyone ==
    IF sync_state.folder_id # ""
    THEN enqueue_drive_sync_job("u1", sync_state.folder_id, DEFAULT_BATCH_SIZE)
    ELSE UNCHANGED vars

\* sync_all_users (lines 958-972): main.py runs it every 30 minutes
sync_all_users ==
    IF sync_state.sync_enabled /\ sync_state.folder_id # ""
    THEN enqueue_drive_sync_job("u1", sync_state.folder_id, DEFAULT_BATCH_SIZE)
    ELSE UNCHANGED vars

\* choose_sync_folder (api/sync.py lines 46-73)
choose_sync_folder(folder) ==
    /\ sync_state' = [sync_state EXCEPT !.folder_id = folder, !.sync_enabled = TRUE]
    /\ EnqueueJob("u1", folder, DEFAULT_BATCH_SIZE)
    /\ UNCHANGED <<libraryVars, peopleVars, sync_files, checkpoint, run, completed_runs, orphaned,
                   faults, redelivered, photoVars, embedVars>>

(***************************************************************************)
(* SchedulerSpec: the owner selects a folder, the scheduler fans out, and  *)
(* one worker runs the jobs; the token refresh may fail.                   *)
(***************************************************************************)
SchedulerWorkerStep(w) ==
    \/ StartJob(w)
    \/ AuthOk(w)
    \/ \E refresh \in BOOLEAN : AuthFails(w, refresh)
    \/ ListFiles(w)
    \/ LoopStep(w)
    \/ ZipDownload(w)
    \/ ZipFill(w)
    \/ ZipMark(w)
    \/ SaveBatch(w)
    \/ CommitBatch(w)
    \/ Complete(w)

SchedulerNext ==
    \/ \E f \in Folders : choose_sync_folder(f)
    \/ sync_all_users
    \/ SchedulerWorkerStep(1)

SchedulerSpec == Init /\ [][SchedulerNext]_vars

(***************************************************************************)
(* The queue backend goes away and comes back.  While it is away a push is *)
(* swallowed (queue.py lines 30-33) and a pop returns None (lines 41-44).  *)
(***************************************************************************)
RedisDown ==
    /\ redis_up
    /\ outages < MaxOutages
    /\ redis_up' = FALSE
    /\ outages' = outages + 1
    /\ UNCHANGED <<libraryVars, peopleVars, syncVars, photoVars, embed, embedding_writes, embed_faults, uploads, starts>>

RedisUp ==
    /\ ~redis_up
    /\ redis_up' = TRUE
    /\ UNCHANGED <<libraryVars, peopleVars, syncVars, photoVars, embed, embedding_writes, embed_faults, outages,
                   uploads, starts>>

(***************************************************************************)
(* clip_client.py.  A response of the embedder is its HTTP status, whether *)
(* payload["embedding"] is a list, and the length of that list.  A vector  *)
(* is represented by its length; None by 0.                                *)
(***************************************************************************)
_EXPECTED_EMBEDDING_SIZE == 512
None == 0

Responses ==
    [status : {"ok", "error"}, is_list : BOOLEAN,
     len : {_EXPECTED_EMBEDDING_SIZE - 1, _EXPECTED_EMBEDDING_SIZE}]

\* variant: a list of any length is accepted
_extract_embedding_AnyLength(payload) ==
    IF ~payload.is_list
    THEN None
    ELSE payload.len

\* lines 20-27
_extract_embedding(payload) ==
    IF ~payload.is_list \/ payload.len # _EXPECTED_EMBEDDING_SIZE
    THEN None
    ELSE payload.len

\* lines 48-64: raise_for_status, then _extract_embedding; an HTTP error gives None
embed_image(response) ==
    IF response.status # "ok" THEN None ELSE _extract_embedding(response)

(***************************************************************************)
(* run_embedding_worker (workers.py lines 17-53), one action per await.    *)
(***************************************************************************)
SetEmbed(w, f) == embed' = [embed EXCEPT ![w] = f]

\* line 19: blpop
EmbedPop(w) ==
    /\ embed[w].pc = "idle"
    /\ redis_up
    /\ embedding_jobs # << >>
    /\ embedding_jobs' = Tail(embedding_jobs)
    /\ SetEmbed(w, [IdleEmbed EXCEPT !.pc = "load", !.photo = Head(embedding_jobs)])
    /\ UNCHANGED <<libraryVars, peopleVars, syncVars, photos, next_photo, embedding_writes, embed_faults, redis_up,
                   outages, uploads, starts>>

\* lines 28-35: the row is selected; a missing or embedded photo ends the turn
EmbedLoad(w) ==
    /\ embed[w].pc = "load"
    /\ LET photo == photos[embed[w].photo] IN
       IF ~photo.exists \/ photo.embedding # None
       THEN SetEmbed(w, [IdleEmbed EXCEPT !.outcome = "dropped"])
       ELSE SetEmbed(w, [embed[w] EXCEPT !.pc = "fetch"])
    /\ UNCHANGED <<libraryVars, peopleVars, syncVars, photoVars, embedding_writes, embed_faults, redis_up, outages,
                   uploads, starts>>

\* lines 37-42: storage.get_file; on any exception the id is pushed back
EmbedFetch(w, ok) ==
    /\ embed[w].pc = "fetch"
    /\ IF ok
       THEN /\ SetEmbed(w, [embed[w] EXCEPT !.pc = "embed"])
            /\ UNCHANGED <<embedding_jobs, embed_faults>>
       ELSE /\ embed_faults < MaxEmbedFaults
            /\ embed_faults' = embed_faults + 1
            /\ embedding_jobs' = push_embedding_job(embedding_jobs, embed[w].photo)
            /\ SetEmbed(w, [IdleEmbed EXCEPT !.outcome = "fetch_failed",
                                             !.photo = embed[w].photo])
    /\ UNCHANGED <<libraryVars, peopleVars, syncVars, photos, next_photo, embedding_writes, redis_up, outages,
                   uploads, starts>>

\* lines 44-52: embed_image; None pushes the id back, a vector is written and committed
EmbedImage(w, response) ==
    /\ embed[w].pc = "embed"
    /\ LET id == embed[w].photo
           embedding == embed_image(response)
       IN IF embedding = None
          THEN /\ embed_faults < MaxEmbedFaults
               /\ embed_faults' = embed_faults + 1
               /\ embedding_jobs' = push_embedding_job(embedding_jobs, id)
               /\ SetEmbed(w, [IdleEmbed EXCEPT !.outcome = "embed_failed", !.photo = id,
                                                !.response = response])
               /\ UNCHANGED <<photos, embedding_writes>>
          ELSE /\ photos' = [photos EXCEPT ![id].embedding = embedding,
                                           ![id].generated = TRUE]
               /\ embedding_writes' = [embedding_writes EXCEPT ![id] = @ + 1]
               /\ SetEmbed(w, [IdleEmbed EXCEPT !.outcome = "written", !.photo = id,
                                                !.response = response])
               /\ UNCHANGED <<embedding_jobs, embed_faults>>
    /\ UNCHANGED <<libraryVars, peopleVars, syncVars, next_photo, redis_up, outages, uploads, starts>>

(***************************************************************************)
(* api/photos.py.                                                          *)
(***************************************************************************)
\* sequences that list the members of S once each
Orderings(S) ==
    {o \in [1..Cardinality(S) -> S] : \A a, b \in DOMAIN o : o[a] = o[b] => a = b}

\* push with prioritize=True: section 4.4, priority_push prepends
priority_push(queue, photo_id) == IF redis_up THEN <<photo_id>> \o queue ELSE queue

RECURSIVE PriorityPushAll(_, _)
PriorityPushAll(queue, ids) ==
    IF ids = << >> THEN queue
    ELSE PriorityPushAll(priority_push(queue, Head(ids)), Tail(ids))

\* lines 354-373: every live photo of the user without embedding is pushed again
start_embedding_for_pending ==
    /\ starts < MaxStarts
    /\ starts' = starts + 1
    /\ LET pending == {p \in PhotoIds : /\ photos[p].exists
                                        /\ ~photos[p].is_deleted
                                        /\ photos[p].embedding = None}
       IN \E order \in Orderings(pending) :
             embedding_jobs' = PriorityPushAll(embedding_jobs, order)
    /\ UNCHANGED <<libraryVars, peopleVars, syncVars, photos, next_photo, embed, embedding_writes, embed_faults,
                   redis_up, outages, uploads>>

\* lines 609-631: soft delete
delete_photo(p) ==
    /\ photos[p].exists
    /\ ~photos[p].is_deleted
    /\ photos' = [photos EXCEPT ![p].is_deleted = TRUE]
    /\ UNCHANGED <<libraryVars, peopleVars, syncVars, next_photo, embedding_jobs, embedVars>>

(***************************************************************************)
(* upload_photos (lines 151-245).  A file of the request is an image that  *)
(* passes every check, or one that is too large (line 169), fails the      *)
(* magic-byte check (line 173), cannot be hashed (line 179) or cannot be   *)
(* turned into a thumbnail (line 185, outside any try).  The first image   *)
(* that gets past the thumbnail reaches line 188, which reads the name     *)
(* user_id; nothing in the function or the module binds it, so the request *)
(* ends there with a NameError, before upload_file, db.add, commit and     *)
(* push: no row is added, nothing is committed, nothing is pushed,         *)
(* whether the object store is up or not.                                  *)
(***************************************************************************)
FileKinds == {"image", "too_large", "bad_magic", "undecodable", "bad_thumbnail"}

MAX_FILE_SIZE_BYTES == 52428800

\* len(image_bytes): a file of kind too_large is one byte over the limit, every other
\* file is exactly at the limit
FileSize(kind) == IF kind = "too_large" THEN MAX_FILE_SIZE_BYTES + 1 ELSE MAX_FILE_SIZE_BYTES

UploadBatches == UNION {[1..n -> FileKinds] : n \in 1..MaxUploadFiles}

\* lines 167-189: the loop up to the first statement that raises
RECURSIVE UploadLoop(_, _)
UploadLoop(files, failed_count) ==
    IF files = << >> THEN [error |-> "none", failed |-> failed_count]
    ELSE IF FileSize(Head(files)) > MAX_FILE_SIZE_BYTES
    THEN UploadLoop(Tail(files), failed_count + 1)
    ELSE IF Head(files) \in {"bad_magic", "undecodable"}
    THEN UploadLoop(Tail(files), failed_count + 1)
    ELSE IF Head(files) = "bad_thumbnail"
    THEN [error |-> "UnidentifiedImageError", failed |-> 0]
    ELSE [error |-> "NameError", failed |-> 0]

upload_photos(files, storage_up) ==
    /\ LET out == UploadLoop(files, 0) IN
       uploads' = [files |-> files, storage_up |-> storage_up, error |-> out.error,
                   uploaded |-> 0, skipped |-> 0, failed |-> out.failed]
    /\ UNCHANGED <<libraryVars, peopleVars, syncVars, photoVars, embed, embedding_writes, embed_faults,
                   redis_up, outages, starts>>

(***************************************************************************)
(* PipelineSpec: one sync worker ingests a folder while two embedding      *)
(* workers drain embedding_jobs.                                           *)
(***************************************************************************)
PipelineSyncStep(w) ==
    \/ StartJob(w)
    \/ AuthOk(w)
    \/ ListFiles(w)
    \/ LoopStep(w)
    \/ ZipDownload(w)
    \/ ZipFill(w)
    \/ ZipMark(w)
    \/ SaveBatch(w)
    \/ CommitBatch(w)
    \/ Complete(w)

EmbedWorkerStep(w) ==
    \/ EmbedPop(w)
    \/ EmbedLoad(w)
    \/ \E ok \in BOOLEAN : EmbedFetch(w, ok)
    \/ \E response \in Responses : EmbedImage(w, response)

PipelineNext ==
    \/ enqueue_drive_sync_job("u1", "f2", DEFAULT_BATCH_SIZE)
    \/ PipelineSyncStep(1)
    \/ \E w \in EmbedWorkers : EmbedWorkerStep(w)
    \/ start_embedding_for_pending
    \/ \E p \in PhotoIds : delete_photo(p)
    \/ RedisDown
    \/ RedisUp

PipelineSpec == Init /\ [][PipelineNext]_vars

(***************************************************************************)
(* QueueSpec: a sync job pushes the ids of its photos, POST                *)
(* /embedding/start pushes the pending ones again with priority, and one   *)
(* embedding worker pops and embeds without failures.                      *)
(***************************************************************************)
QueueNext ==
    \/ enqueue_drive_sync_job("u1", "f1", DEFAULT_BATCH_SIZE)
    \/ PipelineSyncStep(1)
    \/ EmbedPop(1)
    \/ EmbedLoad(1)
    \/ EmbedFetch(1, TRUE)
    \/ EmbedImage(1, [status |-> "ok", is_list |-> TRUE, len |-> _EXPECTED_EMBEDDING_SIZE])
    \/ start_embedding_for_pending

QueueSpec == Init /\ [][QueueNext]_vars

(***************************************************************************)
(* UploadSpec: POST /upload requests while a sync job ingests a folder and *)
(* an embedding worker drains embedding_jobs.                              *)
(***************************************************************************)
UploadNext ==
    \/ \E files \in UploadBatches, storage_up \in BOOLEAN : upload_photos(files, storage_up)
    \/ enqueue_drive_sync_job("u1", "f2", DEFAULT_BATCH_SIZE)
    \/ PipelineSyncStep(1)
    \/ EmbedWorkerStep(1)

UploadSpec == Init /\ [][UploadNext]_vars

(***************************************************************************)
(* services/people.py.  A similarity score is the fraction                 *)
(* <<numerator, denominator>> with a positive denominator, so that the     *)
(* comparisons of lines 102 and 106 are exact.                             *)
(***************************************************************************)
IsPersonTag(tag) == tag.prefix \in {PERSON_NAME_PREFIX, PERSON_CLUSTER_PREFIX}

RECURSIVE DotUpTo(_, _, _)
DotUpTo(a, b, n) == IF n = 0 THEN 0 ELSE a[n] * b[n] + DotUpTo(a, b, n - 1)

\* line 15: zip stops at the shorter vector
_dot(a, b) == DotUpTo(a, b, Min(Len(a), Len(b)))

\* line 19: the square root of the sum of squares
_norm(a) ==
    LET squares == _dot(a, a) IN
    CHOOSE r \in 0..squares : r * r <= squares /\ (r + 1) * (r + 1) > squares

\* lines 22-26
_cosine_similarity(a, b) ==
    LET denom == _norm(a) * _norm(b) IN
    IF denom = 0 THEN <<0, 1>> ELSE <<_dot(a, b), denom>>

ScoreLess(x, y) == x[1] * y[2] < y[1] * x[2]

\* line 69: similarity_threshold = 0.86
similarity_threshold == <<86, 100>>

\* variant: only the person: rows are deleted
_clear_person_tags_NamesOnly(tags, p) ==
    [tags EXCEPT ![p] = {r \in @ : r.tag.prefix # PERSON_NAME_PREFIX}]

\* lines 50-63: the DELETE of the photo's person: and person_cluster: rows
_clear_person_tags(tags, p) ==
    [tags EXCEPT ![p] = {r \in @ : ~IsPersonTag(r.tag)}]

RECURSIVE SeqOf(_)
SeqOf(S) ==
    IF S = {} THEN << >>
    ELSE LET x == CHOOSE y \in S : TRUE IN <<x>> \o SeqOf(S \ {x})

RECURSIVE Ascending(_)
Ascending(S) ==
    IF S = {} THEN << >>
    ELSE LET x == CHOOSE y \in S : \A z \in S : y <= z IN <<x>> \o Ascending(S \ {x})

\* lines 75-92: the person tags of the owner's other live photos that have an
\* embedding, the latest photo first
RECURSIVE CandidateRows(_, _, _)
CandidateRows(tags, p, q) ==
    IF q = 0 THEN << >>
    ELSE (IF /\ q # p
             /\ photos[q].exists
             /\ photos[q].user = photos[p].user
             /\ ~photos[q].is_deleted
             /\ photos[q].embedding # None
          THEN SeqOf({[vector |-> Vectors[image_vector[q]], tag |-> r.tag] :
                        r \in {x \in tags[q] : IsPersonTag(x.tag)}})
          ELSE << >>) \o CandidateRows(tags, p, q - 1)

NoBest == [score |-> <<0, 1>>, tag |-> NoTag]

\* lines 95-104: the first row with the greatest positive score
RECURSIVE BestCandidate(_, _, _)
BestCandidate(source, rows, best) ==
    IF rows = << >> THEN best
    ELSE LET score == _cosine_similarity(source, Head(rows).vector) IN
         BestCandidate(source, Tail(rows),
                       IF ScoreLess(best.score, score)
                       THEN [score |-> score, tag |-> Head(rows).tag]
                       ELSE best)

\* variant: a score equal to the threshold mints a new tag
MintsNewTag_AtThreshold(best) ==
    best.tag = NoTag \/ ~ScoreLess(similarity_threshold, best.score)

\* line 106
MintsNewTag(best) ==
    best.tag = NoTag \/ ScoreLess(best.score, similarity_threshold)

\* lines 66-112, in a session that sees the rows `tags`; `token` is the next uuid4 token
auto_assign_person_cluster(tags, p, token) ==
    IF photos[p].embedding = None
    THEN [tags |-> tags, name |-> NoTag, minted |-> FALSE]
    ELSE LET best == BestCandidate(Vectors[image_vector[p]],
                                   CandidateRows(tags, p, MaxPhotos), NoBest)
             minted == MintsNewTag(best)
             name == IF minted
                     THEN [prefix |-> PERSON_CLUSTER_PREFIX, label |-> ToString(token)]
                     ELSE best.tag
         IN [tags |-> [_clear_person_tags(tags, p) EXCEPT
                          ![p] = @ \cup {[tag |-> name, source |-> "auto_people"]}],
             name |-> name, minted |-> minted]

(***************************************************************************)
(* The People endpoints of api/photos.py.  The calls are taken one after   *)
(* another: while a reindex runs, no other People call starts.             *)
(***************************************************************************)
LivePhotosOf(owner) ==
    {p \in PhotoIds : photos[p].exists /\ photos[p].user = owner /\ ~photos[p].is_deleted}

\* payload.name.strip() and .lower(), on the names the model sends
strip(name) == CASE name = " Ann" -> "Ann" [] name = " " -> "" [] OTHER -> name
lower(name) == CASE name = "Ann" -> "ann" [] OTHER -> name

\* lines 970-1024
assign_people_name(owner, name, ids) ==
    /\ reindex.pc = "idle"
    /\ LET normalized == strip(name)
           tag == [prefix |-> PERSON_NAME_PREFIX, label |-> lower(normalized)]
           selected == ids \cap LivePhotosOf(owner)
       IN photo_tags' =
             IF normalized = ""
             THEN photo_tags
             ELSE [p \in PhotoIds |->
                     IF p \in selected
                     THEN _clear_person_tags(photo_tags, p)[p]
                             \cup {[tag |-> tag, source |-> "manual_person"]}
                     ELSE photo_tags[p]]
    /\ UNCHANGED <<libraryVars, syncVars, photoVars, embedVars, image_vector, next_token, reindex,
                   search_result>>

\* lines 1031-1067
remove_from_people_group(owner, ids) ==
    /\ reindex.pc = "idle"
    /\ LET selected == ids \cap LivePhotosOf(owner) IN
       photo_tags' = [p \in PhotoIds |->
                        IF p \in selected
                        THEN {r \in photo_tags[p] : ~IsPersonTag(r.tag)}
                        ELSE photo_tags[p]]
    /\ UNCHANGED <<libraryVars, syncVars, photoVars, embedVars, image_vector, next_token, reindex,
                   search_result>>

\* variant: the full reset keeps the names given by hand
reindex_people_groups_KeepsNames(owner, full_reset) ==
    /\ reindex.pc = "idle"
    /\ LET reset == IF full_reset
                    THEN [p \in PhotoIds |->
                            IF p \in LivePhotosOf(owner)
                            THEN {r \in photo_tags[p] : r.tag.prefix # PERSON_CLUSTER_PREFIX}
                            ELSE photo_tags[p]]
                    ELSE photo_tags
           selected == {p \in LivePhotosOf(owner) : photos[p].embedding # None}
       IN /\ photo_tags' = reset
          /\ reindex' = [pc |-> "loop", owner |-> owner, todo |-> Ascending(selected),
                         view |-> reset]
    /\ UNCHANGED <<libraryVars, syncVars, photoVars, embedVars, image_vector, next_token, search_result>>

\* lines 1070-1102: the full reset is committed, then the photos are selected
reindex_people_groups(owner, full_reset) ==
    /\ reindex.pc = "idle"
    /\ LET reset == IF full_reset
                    THEN [p \in PhotoIds |->
                            IF p \in LivePhotosOf(owner)
                            THEN {r \in photo_tags[p] : ~IsPersonTag(r.tag)}
                            ELSE photo_tags[p]]
                    ELSE photo_tags
           selected == {p \in LivePhotosOf(owner) : photos[p].embedding # None}
       IN /\ photo_tags' = reset
          /\ reindex' = [pc |-> "loop", owner |-> owner, todo |-> Ascending(selected),
                         view |-> reset]
    /\ UNCHANGED <<libraryVars, syncVars, photoVars, embedVars, image_vector, next_token, search_result>>

\* lines 1105-1109: one turn of the loop
ReindexStep ==
    /\ reindex.pc = "loop"
    /\ reindex.todo # << >>
    /\ LET assigned == auto_assign_person_cluster(reindex.view, Head(reindex.todo),
                                                  next_token)
       IN /\ assigned.minted => next_token <= MaxClusters
          /\ next_token' = IF assigned.minted THEN next_token + 1 ELSE next_token
          /\ reindex' = [reindex EXCEPT !.todo = Tail(@), !.view = assigned.tags]
    /\ UNCHANGED <<libraryVars, syncVars, photoVars, embedVars, photo_tags, image_vector, search_result>>

\* line 1111: the final commit
ReindexCommit ==
    /\ reindex.pc = "loop"
    /\ reindex.todo = << >>
    /\ photo_tags' = reindex.view
    /\ reindex' = IdleReindex
    /\ UNCHANGED <<libraryVars, syncVars, photoVars, embedVars, image_vector, next_token, search_result>>

\* the request dies inside the loop: the session is closed without a commit
ReindexFails ==
    /\ reindex.pc = "loop"
    /\ reindex' = IdleReindex
    /\ UNCHANGED <<libraryVars, syncVars, photoVars, embedVars, photo_tags, image_vector, next_token,
                   search_result>>

\* lines 513-537
restore_photo(p) ==
    /\ photos[p].exists
    /\ photos[p].is_deleted
    /\ photos' = [photos EXCEPT ![p].is_deleted = FALSE]
    /\ UNCHANGED <<libraryVars, syncVars, next_photo, embedding_jobs, embedVars, peopleVars>>

(***************************************************************************)
(* api/search.py.                                                          *)
(***************************************************************************)
\* variant: the WHERE clause without is_deleted = false
SearchRows_WithTrash(owner) ==
    {p \in PhotoIds : /\ photos[p].exists
                      /\ photos[p].user = owner
                      /\ photos[p].embedding # None}

\* lines 44-47: the WHERE clause
SearchRows(owner) ==
    {p \in PhotoIds : /\ photos[p].exists
                      /\ photos[p].user = owner
                      /\ ~photos[p].is_deleted
                      /\ photos[p].embedding # None}

\* lines 18-82; `ok` is whether embed_text returned a vector.  The order of
\* the rows depends on the query vector, so any `limit` of them may come back.
search_photos(owner, limit, ok) ==
    /\ IF ~ok
       THEN search_result' = [owner |-> owner, status |-> 503, items |-> {}]
       ELSE \E items \in SUBSET SearchRows(owner) :
               /\ Cardinality(items) = Min(limit, Cardinality(SearchRows(owner)))
               /\ search_result' = [owner |-> owner, status |-> 200, items |-> items]
    /\ UNCHANGED <<libraryVars, syncVars, photoVars, embedVars, photo_tags, image_vector, next_token,
                   reindex>>

(***************************************************************************)
(* A library: the Photo rows after the owners' Drive folders were synced.  *)
(* The ids of the photos without embedding wait in embedding_jobs.         *)
(***************************************************************************)
Owners == {"u1", "u2"}
LibraryPhotos == 1..3
PersonNames == {"Ann", " Ann", " "}
SearchLimits == {1, 100}
\* payload.photo_ids of a People call: one photo, or the whole library
PhotoSelections == {{p} : p \in LibraryPhotos} \cup {LibraryPhotos}

Library(owners, embedded) ==
    /\ NoActivity
    /\ NoRequests
    /\ photos = [p \in PhotoIds |->
                   IF p \in LibraryPhotos
                   THEN [NewPhoto(p, owners[p], [file |-> ToString(p), entry |-> NoEntry])
                            EXCEPT !.embedding = IF p \in embedded
                                                 THEN _EXPECTED_EMBEDDING_SIZE ELSE None,
                                   !.generated = p \in embedded]
                   ELSE NoPhoto]
    /\ next_photo = Cardinality(LibraryPhotos) + 1
    /\ embedding_jobs = Ascending(LibraryPhotos \ embedded)

(***************************************************************************)
(* PeopleSpec: the People endpoints on a library, with soft deletes.       *)
(***************************************************************************)
PeopleInit ==
    /\ \E owners \in [LibraryPhotos -> Owners], embedded \in SUBSET LibraryPhotos :
          /\ owners[1] = "u1"
          /\ owners[2] = "u1"
          /\ 1 \in embedded
          /\ Library(owners, embedded)
    /\ image_vector \in [PhotoIds -> 1..4]
    /\ \A p \in PhotoIds : (p = 1 \/ p \notin LibraryPhotos) => image_vector[p] = 1
    /\ image_vector[2] \in {2, 4}
    /\ image_vector[3] \in {3, 4}

PeopleNext ==
    \/ \E o \in Owners, name \in PersonNames, ids \in PhotoSelections :
          assign_people_name(o, name, ids)
    \/ \E o \in Owners, ids \in PhotoSelections : remove_from_people_group(o, ids)
    \/ \E o \in Owners, full_reset \in BOOLEAN : reindex_people_groups(o, full_reset)
    \/ ReindexStep
    \/ ReindexCommit
    \/ ReindexFails
    \/ \E p \in PhotoIds : delete_photo(p)

PeopleSpec == PeopleInit /\ [][PeopleNext]_vars

(***************************************************************************)
(* ReindexSpec: full resets of the people groups, one after another, on a  *)
(* library whose person tags are changed by hand and whose photos are      *)
(* trashed and restored between the runs.                                  *)
(***************************************************************************)
ReindexInit ==
    /\ \E owners \in [LibraryPhotos -> Owners], embedded \in SUBSET LibraryPhotos :
          /\ owners[1] = "u1"
          /\ owners[2] = "u1"
          /\ 1 \in embedded
          /\ Library(owners, embedded)
    /\ image_vector \in [PhotoIds -> {1, 2, 3, 4, 5}]
    /\ \A p \in PhotoIds : p \notin LibraryPhotos => image_vector[p] = 1
    /\ image_vector[1] = 2
    /\ image_vector[2] \in {2, 4}
    /\ image_vector[3] \in {3, 5}

ReindexNext ==
    \/ \E o \in Owners, ids \in PhotoSelections : assign_people_name(o, "Ann", ids)
    \/ \E o \in Owners, ids \in PhotoSelections : remove_from_people_group(o, ids)
    \/ \E o \in Owners : reindex_people_groups(o, TRUE)
    \/ ReindexStep
    \/ ReindexCommit
    \/ \E p \in PhotoIds : reindex.pc = "idle" /\ delete_photo(p)
    \/ \E p \in PhotoIds : reindex.pc = "idle" /\ restore_photo(p)

ReindexSpec == ReindexInit /\ [][ReindexNext]_vars

(***************************************************************************)
(* SearchSpec: searches on a library while an embedding worker fills in    *)
(* the embeddings and the owners delete and restore photos.                *)
(***************************************************************************)
SearchInit ==
    /\ \E owners \in [LibraryPhotos -> Owners] :
          /\ owners[1] = "u1"
          /\ Library(owners, {})
    /\ image_vector = [p \in PhotoIds |-> 1]

SearchNext ==
    \/ EmbedWorkerStep(1)
    \/ \E p \in PhotoIds : delete_photo(p)
    \/ \E p \in PhotoIds : restore_photo(p)
    \/ \E o \in Owners, limit \in SearchLimits, ok \in BOOLEAN : search_photos(o, limit, ok)

SearchSpec == SearchInit /\ [][SearchNext]_vars

(***************************************************************************)
(* services/zip_utils.py.  file_bytes is the sequence of the leading       *)
(* fields of a file: the 3 bytes of the JPEG marker, the two halves of the *)
(* PNG signature, the 6 bytes of a GIF header, or the three 4-byte words   *)
(* of a RIFF or ISO-BMFF header.                                           *)
(***************************************************************************)
JPEG_MAGIC == <<"FFD8FF">>
PNG_MAGIC == <<"89PNG", "0D0A1A0A">>
WEBP_RIFF == "RIFF"
WEBP_TYPE == "WEBP"
GIF87A == <<"GIF87a">>
GIF89A == <<"GIF89a">>
HeicBrands == {"heic", "heif", "heix", "hevc"}

Filenames == {"", "p", "p.txt", "p.jpg", "p.png", "p.gif", "p.webp", "p.heic", "p.bmp"}

SampleBytes ==
    { << >>, <<"FFD8FF", "E0">>, <<"89PNG", "0D0A1A0A">>, <<"89PNG">>, <<"GIF87a">>,
      <<"GIF89a">>, <<"RIFF", "size", "WEBP">>, <<"RIFF", "size", "WAVE">>, <<"RIFF", "size">>,
      <<"size", "ftyp", "heic">>, <<"size", "ftyp", "heif">>, <<"size", "ftyp", "heix">>,
      <<"size", "ftyp", "hevc">>, <<"size", "ftyp", "mp42">>, <<"PK">> }

\* bytes.startswith
startswith(file_bytes, prefix) ==
    /\ Len(file_bytes) >= Len(prefix)
    /\ SubSeq(file_bytes, 1, Len(prefix)) = prefix

\* mimetypes.guess_type: the type of the extension, "" for none
guess_type(filename) ==
    CASE filename = "p.txt"  -> "text/plain"
      [] filename = "p.jpg"  -> "image/jpeg"
      [] filename = "p.png"  -> "image/png"
      [] filename = "p.gif"  -> "image/gif"
      [] filename = "p.webp" -> "image/webp"
      [] filename = "p.heic" -> "image/heic"
      [] filename = "p.bmp"  -> "image/bmp"
      [] OTHER -> ""

IsImageType(mime) == mime \in {"image/jpeg", "image/png", "image/gif", "image/webp",
                               "image/heic", "image/bmp"}

\* lines 33-48: the signature tests, "" for None
MagicType(file_bytes) ==
    IF startswith(file_bytes, JPEG_MAGIC) THEN "image/jpeg"
    ELSE IF startswith(file_bytes, PNG_MAGIC) THEN "image/png"
    ELSE IF startswith(file_bytes, GIF87A) \/ startswith(file_bytes, GIF89A) THEN "image/gif"
    ELSE IF /\ Len(file_bytes) >= 3
            /\ file_bytes[1] = WEBP_RIFF
            /\ file_bytes[3] = WEBP_TYPE
    THEN "image/webp"
    ELSE IF /\ Len(file_bytes) >= 3
            /\ file_bytes[2] = "ftyp"
            /\ file_bytes[3] \in HeicBrands
    THEN "image/heic"
    ELSE ""

\* lines 28-49: the extension is tested first, the signature only when it is no image's
detect_image_content_type(filename, file_bytes) ==
    IF IsImageType(guess_type(filename))
    THEN guess_type(filename)
    ELSE MagicType(file_bytes)

(***************************************************************************)
(* DetectSpec: detect_image_content_type applied to one file.              *)
(***************************************************************************)
Detect ==
    \E filename \in Filenames, file_bytes \in SampleBytes :
       /\ detected' = [filename |-> filename, file_bytes |-> file_bytes, called |-> TRUE,
                       result |-> detect_image_content_type(filename, file_bytes)]
       /\ UNCHANGED <<syncVars, photoVars, embedVars, peopleVars, memoryVars, dedupVars,
                      listing, temp_files, progressVars>>

DetectNext == Detect

DetectSpec == Init /\ [][DetectNext]_vars

(***************************************************************************)
(* run_daily_memories_job (jobs/workers.py lines 56-103), which main.py    *)
(* schedules daily at 08:00.  A time is [year, day, hour] with the day of  *)
(* the year standing for month and day.                                    *)
(***************************************************************************)
MEMORY_JOB_HOUR == 8

\* taken_at IS NULL
NoTime == [year |-> 0, day |-> 0, hour |-> 0]

Before(a, b) ==
    \/ a.year < b.year
    \/ a.year = b.year /\ a.day < b.day
    \/ a.year = b.year /\ a.day = b.day /\ a.hour < b.hour

now == [year |-> CurrentYear, day |-> today, hour |-> MEMORY_JOB_HOUR]

\* line 60: midnight of today's date one year ago
cutoff == [year |-> now.year - 1, day |-> now.day, hour |-> 0]

\* variant: soft-deleted photos are selected too
MemoryRows_WithTrash(user) ==
    {p \in DOMAIN photos :
        /\ photos[p].exists
        /\ photos[p].user = user
        /\ photos[p].taken_at # NoTime
        /\ Before(photos[p].taken_at, cutoff)
        /\ photos[p].taken_at.day = now.day}

\* lines 63-72: the rows the SELECT returns for a user
MemoryRows(user) ==
    {p \in DOMAIN photos :
        /\ photos[p].exists
        /\ photos[p].user = user
        /\ photos[p].taken_at # NoTime
        /\ ~photos[p].is_deleted
        /\ Before(photos[p].taken_at, cutoff)
        /\ photos[p].taken_at.day = now.day}

\* ORDER BY taken_at DESC of photos with pairwise different taken_at
NewestFirst(S) ==
    [n \in 1..Cardinality(S) |->
        CHOOSE p \in S :
           Cardinality({q \in S : Before(photos[p].taken_at, photos[q].taken_at)}) = n - 1]

\* lines 84-87: the largest max(1, now.year - taken_at.year) over the rows, from 1
YearsAgo(S) ==
    LET years(p) == Max(1, now.year - photos[p].taken_at.year)
    IN IF S = {} THEN 1 ELSE CHOOSE y \in {years(p) : p \in S} : \A q \in S : years(q) <= y

\* lines 77-98: the row of one user: the first 10 ids and the label
MemoryOf(user) ==
    LET S == MemoryRows(user)
        ordered == NewestFirst(S)
    IN [user |-> user,
        photo_ids |-> SubSeq(ordered, 1, Min(10, Len(ordered))),
        label |-> ToString(YearsAgo(S)) \o " years ago",
        memory_date |-> today]

\* users in ascending order whose SELECT is not empty
MemoryUsers == SelectSeq(<<"u1", "u2">>, LAMBDA u : MemoryRows(u) # {})

\* variant: the rows of today are not deleted first
run_daily_memories_job_NoDelete ==
    /\ memory_runs < MaxMemoryRuns
    /\ memory_runs' = memory_runs + 1
    /\ memories' = memories \o [n \in 1..Len(MemoryUsers) |-> MemoryOf(MemoryUsers[n])]
    /\ UNCHANGED <<syncVars, photoVars, embedVars, peopleVars, detected, today, dedupVars,
                   listing, temp_files, progressVars>>

\* lines 56-103, one transaction: select, delete today's rows, insert, commit
run_daily_memories_job ==
    /\ memory_runs < MaxMemoryRuns
    /\ memory_runs' = memory_runs + 1
    /\ memories' = SelectSeq(memories, LAMBDA m : m.memory_date # today)
                      \o [n \in 1..Len(MemoryUsers) |-> MemoryOf(MemoryUsers[n])]
    /\ UNCHANGED <<syncVars, photoVars, embedVars, peopleVars, detected, today, dedupVars,
                   listing, temp_files, progressVars>>

\* midnight passes
NextDay ==
    /\ today < FirstDay + MaxDays - 1
    /\ today' = today + 1
    /\ UNCHANGED <<syncVars, photoVars, embedVars, peopleVars, detected, memories,
                   memory_runs, dedupVars, listing, temp_files, progressVars>>

(***************************************************************************)
(* MemorySpec: the daily job on a library of 11 photos of u1 and one of    *)
(* u2.  The first n photos of u1 were taken on today's date two years ago, *)
(* at different hours; the others of u1 are all of one kind, as is the     *)
(* photo of u2.                                                            *)
(***************************************************************************)
MemoryPhotoIds == 1..12
TakenKinds == {"last_year", "five_years", "next_day", "undated"}

\* photos of one user get pairwise different hours
HourOf(p) == (p * 5) % 24

TakenAt(kind, p) ==
    CASE kind = "two_years"  -> [year |-> CurrentYear - 2, day |-> FirstDay, hour |-> HourOf(p)]
      [] kind = "last_year"  -> [year |-> CurrentYear - 1, day |-> FirstDay, hour |-> HourOf(p)]
      [] kind = "five_years" -> [year |-> CurrentYear - 5, day |-> FirstDay, hour |-> HourOf(p)]
      [] kind = "next_day"   -> [year |-> CurrentYear - 3, day |-> FirstDay + 1,
                                 hour |-> HourOf(p)]
      [] OTHER -> NoTime

MemoryLibrary(n, rest, other) ==
    /\ NoActivity
    /\ NoRequests
    /\ embedding_jobs = << >>
    /\ next_photo = 1
    /\ image_vector = [p \in PhotoIds |-> 1]
    /\ photos = [p \in MemoryPhotoIds |->
                   [taken_at |-> IF p = 12 THEN TakenAt(other, p)
                                 ELSE IF p <= n THEN TakenAt("two_years", p)
                                 ELSE TakenAt(rest, p)]
                   @@ [NoPhoto EXCEPT !.exists = TRUE, !.id = p, !.source = "manual_upload",
                                      !.user = IF p = 12 THEN "u2" ELSE "u1"]]

MemoryInit ==
    \E n \in {0, 1, 10, 11}, rest \in TakenKinds, other \in TakenKinds :
       MemoryLibrary(n, rest, other)

MemoryNext ==
    \/ run_daily_memories_job
    \/ NextDay
    \/ \E p \in {1, 11, 12} : delete_photo(p)

MemorySpec == MemoryInit /\ [][MemoryNext]_vars

(***************************************************************************)
(* delete_all_duplicates (api/photos.py lines 728-778), one transaction.   *)
(* A photo row carries phash ("" for NULL) and uploaded_at.                *)
(***************************************************************************)
NoHash == ""

\* a row that db.delete removed
DeletedRow == [phash |-> NoHash, uploaded_at |-> 0] @@ NoPhoto

\* the live photos of the owner with the hash
LiveWithHash(owner, phash) ==
    {p \in DOMAIN photos :
        /\ photos[p].exists
        /\ photos[p].user = owner
        /\ ~photos[p].is_deleted
        /\ photos[p].phash = phash}

\* lines 733-743: GROUP BY phash HAVING count > 1 over the live photos with a hash
duplicate_hashes(owner) ==
    {h \in {photos[p].phash : p \in DOMAIN photos} :
        h # NoHash /\ Cardinality(LiveWithHash(owner, h)) > 1}

\* variant: the first row is the oldest
Kept_Oldest(S) ==
    CHOOSE p \in S : \A q \in S :
       \/ photos[q].uploaded_at > photos[p].uploaded_at
       \/ photos[q].uploaded_at = photos[p].uploaded_at /\ q >= p

\* lines 757-763: photos[0] of ORDER BY uploaded_at DESC, id DESC
Kept(S) ==
    CHOOSE p \in S : \A q \in S :
       \/ photos[q].uploaded_at < photos[p].uploaded_at
       \/ photos[q].uploaded_at = photos[p].uploaded_at /\ q <= p

\* photos[1:] of every group
DuplicateVictims(owner) ==
    UNION {LiveWithHash(owner, h) \ {Kept(LiveWithHash(owner, h))} :
             h \in duplicate_hashes(owner)}

\* `failing` are the photos whose delete_file raises (lines 764-773 swallow it)
delete_all_duplicates(owner, failing) ==
    /\ dedup_response.call < MaxDedupCalls
    /\ LET victims == DuplicateVictims(owner) IN
       /\ photos' = [p \in DOMAIN photos |-> IF p \in victims THEN DeletedRow ELSE photos[p]]
       /\ objects' = objects \ (victims \ failing)
       /\ dedup_response' = [owner |-> owner, deleted |-> Cardinality(victims),
                             call |-> dedup_response.call + 1]
    /\ UNCHANGED <<syncVars, next_photo, embedding_jobs, embedVars, peopleVars, detected,
                   memoryVars, listing, temp_files, progressVars>>

(***************************************************************************)
(* DedupSpec: delete-all on a library of four photos, three of u1 and one  *)
(* of u1 or u2, with soft deletes and restores between the calls.          *)
(***************************************************************************)
DedupPhotoIds == 1..4
Hashes == {"h1", "h2", NoHash}
UploadTimes == {1, 2}

DedupInit ==
    /\ NoActivity
    /\ embedding_jobs = << >>
    /\ next_photo = 1
    /\ image_vector = [p \in PhotoIds |-> 1]
    /\ detected = NoDetection
    /\ memories = << >>
    /\ today = FirstDay
    /\ memory_runs = 0
    /\ objects = DedupPhotoIds
    /\ dedup_response = NoDedup
    /\ listing = NoListing
    /\ temp_files = {}
    /\ sync_progress = [u \in Users |-> _progress_template]
    /\ failure_log = [u \in Users |-> << >>]
    /\ \E last_owner \in Owners, phash \in [DedupPhotoIds -> Hashes],
          uploaded_at \in [DedupPhotoIds -> UploadTimes] :
          /\ uploaded_at[4] = 2
          /\ phash[1] = "h1"
          /\ photos = [p \in DedupPhotoIds |->
                         [phash |-> phash[p], uploaded_at |-> uploaded_at[p]]
                         @@ [NoPhoto EXCEPT !.exists = TRUE, !.id = p,
                                            !.source = "manual_upload",
                                            !.user = IF p = 4 THEN last_owner ELSE "u1"]]

DedupNext ==
    \/ \E owner \in Owners, failing \in {{}, {1, 2}, DedupPhotoIds} :
          delete_all_duplicates(owner, failing)
    \/ \E p \in DedupPhotoIds : delete_photo(p)
    \/ \E p \in DedupPhotoIds : restore_photo(p)

DedupSpec == DedupInit /\ [][DedupNext]_vars

(***************************************************************************)
(* list_photos (api/photos.py lines 246-304).  uploaded_at is a number of  *)
(* microseconds; the cursor is the pair cursor.split("|", 1) yields.       *)
(***************************************************************************)
ListPhotoIds == 1..4
ListTimes == {1000000, 1000005, 2500000}
ListLimits == 1..3

Pad6(micro) ==
    (IF micro < 10 THEN "00000"
     ELSE IF micro < 100 THEN "0000"
     ELSE IF micro < 1000 THEN "000"
     ELSE IF micro < 10000 THEN "00"
     ELSE IF micro < 100000 THEN "0"
     ELSE "") \o ToString(micro)

\* datetime.isoformat: the fraction is left out when the microseconds are 0
isoformat(t) ==
    ToString(t \div 1000000)
      \o (IF t % 1000000 = 0 THEN "" ELSE "." \o Pad6(t % 1000000))
      \o "+00:00"

\* datetime.fromisoformat: the time the text denotes, None for a ValueError
fromisoformat(text) ==
    IF \E t \in ListTimes : isoformat(t) = text
    THEN CHOOSE t \in ListTimes : isoformat(t) = text
    ELSE None

\* UUID(text): the id the text denotes, None for a ValueError
UUID(text) ==
    IF \E p \in ListPhotoIds : ToString(p) = text
    THEN CHOOSE p \in ListPhotoIds : ToString(p) = text
    ELSE None

\* ORDER BY uploaded_at DESC, id DESC: p comes before q
ListedBefore(p, q) ==
    \/ photos[p].uploaded_at > photos[q].uploaded_at
    \/ photos[p].uploaded_at = photos[q].uploaded_at /\ p > q

\* variant: the cursor filters on uploaded_at only
PageRows_NoTieBreak(owner, cursor) ==
    {p \in DOMAIN photos :
        /\ photos[p].exists
        /\ photos[p].user = owner
        /\ ~photos[p].is_deleted
        /\ cursor # NoCursor => photos[p].uploaded_at < fromisoformat(cursor.dt)}

\* lines 253-274: the rows of the query, filtered by the cursor
PageRows(owner, cursor) ==
    {p \in DOMAIN photos :
        /\ photos[p].exists
        /\ photos[p].user = owner
        /\ ~photos[p].is_deleted
        /\ cursor # NoCursor
           => \/ photos[p].uploaded_at < fromisoformat(cursor.dt)
              \/ /\ photos[p].uploaded_at = fromisoformat(cursor.dt)
                 /\ p < UUID(cursor.id)}

\* lines 283-284: the first `limit` rows in order
Page(owner, cursor, limit) ==
    LET S == PageRows(owner, cursor)
        ordered == [n \in 1..Cardinality(S) |->
                      CHOOSE p \in S : Cardinality({q \in S : ListedBefore(q, p)}) = n - 1]
    IN SubSeq(ordered, 1, Min(limit, Len(ordered)))

\* lines 299-301
next_cursor(page, limit) ==
    IF page # << >> /\ Len(page) = limit /\ photos[page[Len(page)]].uploaded_at # 0
    THEN [dt |-> isoformat(photos[page[Len(page)]].uploaded_at),
          id |-> ToString(page[Len(page)])]
    ELSE NoCursor

\* the request of a client that sends the cursor it was handed, or none at first
list_photos(owner, limit, cursor) ==
    /\ IF cursor # NoCursor /\ (fromisoformat(cursor.dt) = None \/ UUID(cursor.id) = None)
       THEN listing' = [listing EXCEPT !.status = 400, !.next_cursor = NoCursor]
       ELSE LET page == Page(owner, cursor, limit) IN
            listing' = [owner |-> owner, limit |-> limit, pages |-> listing.pages + 1,
                        last_page |-> page, items |-> listing.items \o page,
                        next_cursor |-> next_cursor(page, limit), status |-> 200]
    /\ UNCHANGED <<syncVars, photoVars, embedVars, peopleVars, detected, memoryVars,
                   dedupVars, temp_files, progressVars>>

FirstPage ==
    /\ listing = NoListing
    /\ \E owner \in Owners, limit \in ListLimits : list_photos(owner, limit, NoCursor)

NextPage ==
    /\ listing.next_cursor # NoCursor
    /\ list_photos(listing.owner, listing.limit, listing.next_cursor)

(***************************************************************************)
(* ListSpec: a client pages through an unchanged library of four photos,   *)
(* some uploaded at the same time, some soft-deleted.                      *)
(***************************************************************************)
ListInit ==
    /\ NoActivity
    /\ NoRequests
    /\ embedding_jobs = << >>
    /\ next_photo = 1
    /\ image_vector = [p \in PhotoIds |-> 1]
    /\ \E last_owner \in Owners, uploaded_at \in [ListPhotoIds -> ListTimes],
          trashed \in SUBSET {3} :
          photos = [p \in ListPhotoIds |->
                      [uploaded_at |-> uploaded_at[p]]
                      @@ [NoPhoto EXCEPT !.exists = TRUE, !.id = p,
                                         !.source = "manual_upload",
                                         !.is_deleted = p \in trashed,
                                         !.user = IF p = 4 THEN last_owner ELSE "u1"]]

ListNext ==
    \/ FirstPage
    \/ NextPage

ListSpec == ListInit /\ [][ListNext]_vars

(***************************************************************************)
(* TempSpec: one worker runs the jobs of folder f1, a plain image and a    *)
(* container of two entries, with download failures, failing items,        *)
(* exceptions and crashes.                                                 *)
(***************************************************************************)
TempNext ==
    \/ enqueue_drive_sync_job("u1", "f1", DEFAULT_BATCH_SIZE)
    \/ ResyncWorkerStep(1)

TempSpec == Init /\ [][TempNext]_vars

(***************************************************************************)
(* The progress snapshot of a user (drive_sync.py lines 39-138): a dict    *)
(* of this process, keyed by user id, that every step of a sync run        *)
(* updates through _set_progress.                                          *)
(***************************************************************************)
\* line 125-126: how many failures the snapshot keeps
RecentFailuresKept == 10

ProgressStatuses == {"queued", "running", "done", "error"}
FailureItems == {"job", "a.jpg"}

\* lines 137-138
get_sync_progress(user_id) == sync_progress[user_id]

\* line 79: int((processed_files / total_files) * 100); for the counts of the
\* model the floating-point product is the exact quotient rounded down
Percent(processed_files, total_files) == (processed_files * 100) \div total_files

\* lines 69-84: merge the keyword arguments, raise total_files to
\* processed_files, recompute the percentage
_set_progress(user_id, kwargs) ==
    LET current == kwargs @@ sync_progress[user_id]
        total_files == IF current.processed_files > current.total_files
                       THEN current.processed_files ELSE current.total_files
        progress_percent ==
            IF total_files > 0 THEN Min(100, Percent(current.processed_files, total_files))
            ELSE IF current.status \in {"done", "completed"} THEN 100
            ELSE 0
    IN sync_progress' =
           [sync_progress EXCEPT ![user_id] =
               [status |-> current.status,
                progress_percent |-> progress_percent,
                total_files |-> total_files,
                processed_files |-> current.processed_files,
                recent_failures |-> current.recent_failures]]

\* variant: when the list is full the newest failure is the one dropped
_append_failure_KeepsOldest(user_id, item, reason) ==
    LET failure == [item |-> item, reason |-> reason]
        recent == Append(get_sync_progress(user_id).recent_failures, failure)
    IN /\ _set_progress(user_id,
              [recent_failures |->
                  IF Len(recent) > RecentFailuresKept
                  THEN SubSeq(recent, 1, RecentFailuresKept)
                  ELSE recent])
       /\ failure_log' = [failure_log EXCEPT ![user_id] = Append(@, failure)]

\* lines 121-127: append, keep the last ten
_append_failure(user_id, item, reason) ==
    LET failure == [item |-> item, reason |-> reason]
        recent == Append(get_sync_progress(user_id).recent_failures, failure)
    IN /\ _set_progress(user_id,
              [recent_failures |->
                  IF Len(recent) > RecentFailuresKept
                  THEN SubSeq(recent, Len(recent) - RecentFailuresKept + 1, Len(recent))
                  ELSE recent])
       /\ failure_log' = [failure_log EXCEPT ![user_id] = Append(@, failure)]

\* lines 130-134
_increase_total_files(user_id, increment) ==
    /\ _set_progress(user_id,
           [total_files |-> get_sync_progress(user_id).total_files + increment])
    /\ UNCHANGED failure_log

\* the keyword arguments of the calls of _set_progress: a status (lines 234,
\* 256, 621, 647, 947), the reset of a starting run (622-632), the count of
\* the listing (682-688), the counters after a batch (714-722) and those of
\* the finished run (926-936)
ProgressKwargs ==
    {[status |-> s] : s \in ProgressStatuses}
    \cup {[total_files |-> 0, processed_files |-> 0]}
    \cup {[total_files |-> 0]}
    \cup {[processed_files |-> n] : n \in 0..MaxCount}
    \cup {[status |-> "done", processed_files |-> n] : n \in 0..MaxCount}

SetProgress ==
    \E user_id \in Users, kwargs \in ProgressKwargs :
        /\ _set_progress(user_id, kwargs)
        /\ UNCHANGED failure_log
        /\ UNCHANGED <<syncVars, photoVars, embedVars, peopleVars, detected, memoryVars,
                       dedupVars, listing, temp_files>>

\* lines 796 and 890: entries accepted from a container, or one plain file
IncreaseTotalFiles ==
    \E user_id \in Users, increment \in 1..2 :
        /\ get_sync_progress(user_id).total_files + increment <= MaxCount
        /\ _increase_total_files(user_id, increment)
        /\ UNCHANGED <<syncVars, photoVars, embedVars, peopleVars, detected, memoryVars,
                       dedupVars, listing, temp_files>>

JobFailures(user_id) ==
    Cardinality({i \in 1..Len(failure_log[user_id]) : failure_log[user_id][i].item = "job"})

\* lines 388, 436, 823, 857, 868, 881, 886: an item failed; line 946: the run failed
AppendFailure ==
    \E user_id \in Users, item \in FailureItems :
        /\ Len(failure_log[user_id]) < MaxAppended
        /\ item = "job" => JobFailures(user_id) < MaxJobFailures
        /\ _append_failure(user_id, item, "error")
        /\ UNCHANGED <<syncVars, photoVars, embedVars, peopleVars, detected, memoryVars,
                       dedupVars, listing, temp_files>>

(***************************************************************************)
(* ProgressSpec: the calls a process makes on the snapshot of one user, in *)
(* any order, with more failures than the snapshot keeps.                  *)
(***************************************************************************)
ProgressNext ==
    \/ SetProgress
    \/ IncreaseTotalFiles
    \/ AppendFailure

ProgressSpec == Init /\ [][ProgressNext]_vars

(***************************************************************************)
(* Properties of the sync job runner.                                      *)
(***************************************************************************)
JobStatuses == {"queued", "running", "completed", "failed", "cancelled"}

\* C1: for every owner and every non-null source_id there is at most one Photo row
\* with that (owner, source, source_id), whatever runs, failures and retries happened.
C1_UniqueSource ==
    \A p, q \in PhotoIds :
        (/\ photos[p].exists /\ photos[q].exists
         /\ photos[p].source_id # ""
         /\ photos[p].user = photos[q].user
         /\ photos[p].source = photos[q].source
         /\ photos[p].source_id = photos[q].source_id) => p = q

\* the nearest fact that does hold: one Photo row per (owner, source file, source_id)
C1_UniquePerContainer ==
    \A p, q \in PhotoIds :
        (/\ photos[p].exists /\ photos[q].exists
         /\ photos[p].user = photos[q].user
         /\ photos[p].file = photos[q].file
         /\ photos[p].source_id = photos[q].source_id) => p = q

C1_TwoContainersIngested ==
    \E p, q \in PhotoIds :
        /\ photos[p].exists /\ photos[q].exists
        /\ photos[p].file = "z1" /\ photos[q].file = "z2"

Held(j) == \E w \in SyncWorkers : run[w].job = j

\* C2: when a job commits completed, no sibling for the same (owner, folder) is left
\* queued, running or failed; and a sibling cancelled while a worker was still running
\* it stays cancelled.
C2_Supersede ==
    [][\A j \in JobIds :
          /\ (jobs[j].status # "completed" /\ jobs'[j].status = "completed")
                => \A k \in JobIds \ {j} :
                      (/\ jobs'[k].status # "none"
                       /\ jobs'[k].user = jobs'[j].user
                       /\ jobs'[k].folder = jobs'[j].folder)
                      => jobs'[k].status \notin {"queued", "running", "failed"}
          /\ (jobs[j].status = "cancelled" /\ Held(j)) => jobs'[j].status = "cancelled"]_vars

\* the first half of C2 alone
C2_SupersedeAtCommit ==
    [][\A j \in JobIds :
          (jobs[j].status # "completed" /\ jobs'[j].status = "completed")
             => \A k \in JobIds \ {j} :
                   (/\ jobs'[k].status # "none"
                    /\ jobs'[k].user = jobs'[j].user
                    /\ jobs'[k].folder = jobs'[j].folder)
                   => jobs'[k].status \notin {"queued", "running", "failed"}]_vars

C2_CancelledWhileRunning ==
    \E j \in JobIds : jobs[j].status = "cancelled" /\ Held(j)

AllowedTransition(from, to) ==
    \/ from = to
    \/ <<from, to>> \in {<<"none", "queued">>, <<"queued", "running">>,
                          <<"failed", "running">>, <<"running", "completed">>,
                          <<"running", "failed">>, <<"queued", "cancelled">>,
                          <<"running", "cancelled">>, <<"failed", "cancelled">>}

\* a step that pops job id j off drive_sync_jobs
Pops(j) ==
    /\ drive_sync_jobs # << >>
    /\ Head(drive_sync_jobs) = j
    /\ drive_sync_jobs' = Tail(drive_sync_jobs)

\* C3: a job's status moves only along queued->running, failed->running,
\* running->completed, running->failed and {queued, running, failed}->cancelled;
\* completed and cancelled are terminal; popping the id of a completed, cancelled or
\* running job changes neither its status nor its attempts.
C3_StateMachine ==
    [][\A j \in JobIds :
          /\ AllowedTransition(jobs[j].status, jobs'[j].status)
          /\ (Pops(j) /\ jobs[j].status \in {"completed", "cancelled", "running"})
                => (jobs'[j].status = jobs[j].status /\ jobs'[j].attempts = jobs[j].attempts)]_vars

\* C3 without the two transitions out of cancelled that C2's overwrite adds
C3_StateMachineButOverwrite ==
    [][\A j \in JobIds :
          /\ \/ AllowedTransition(jobs[j].status, jobs'[j].status)
             \/ (jobs[j].status = "cancelled" /\ jobs'[j].status \in {"completed", "failed"})
          /\ (Pops(j) /\ jobs[j].status \in {"completed", "cancelled", "running"})
                => (jobs'[j].status = jobs[j].status /\ jobs'[j].attempts = jobs[j].attempts)]_vars

\* C4: attempts never exceeds max_attempts, under any sequence of pops of the id
\* (duplicate deliveries included), and a run that fails with an exception pushes the
\* id back if and only if attempts < max_attempts after that run.
C4_AttemptsBounded ==
    [][\A j \in JobIds :
          /\ jobs'[j].attempts <= jobs'[j].max_attempts
          /\ (jobs[j].status = "running" /\ jobs'[j].status = "failed" /\ run' # run
              /\ \E w \in SyncWorkers : run[w].job = j /\ run[w].pc # "auth")
                => (drive_sync_jobs' = Append(drive_sync_jobs, j)
                      <=> jobs[j].attempts < jobs[j].max_attempts)]_vars

\* C5: when the worker of a job crashed after the job had committed some batches and
\* the id is popped again, the job runs again with attempts incremented by one (and so
\* goes on to completed instead of staying running).
C5_CrashedJobResumes ==
    [][\A j \in JobIds :
          (/\ Pops(j) /\ j \in orphaned /\ jobs[j].status = "running" /\ ~Held(j)
           /\ checkpoint[j] > 0)
             => (/\ jobs'[j].attempts = jobs[j].attempts + 1
                 /\ \E w \in SyncWorkers : run'[w].job = j /\ run'[w].pc = "auth")]_vars

C5_CrashedAfterBatch ==
    \E j \in JobIds :
        /\ j \in orphaned /\ jobs[j].status = "running" /\ ~Held(j)
        /\ checkpoint[j] > 0
        /\ drive_sync_jobs # << >> /\ Head(drive_sync_jobs) = j

\* number of image entries of a folder: plain images plus the entries of its containers
RECURSIVE EntryCount(_)
EntryCount(files) ==
    IF files = << >> THEN 0
    ELSE (IF Head(files).zip THEN Len(Head(files).entries) ELSE 1) + EntryCount(Tail(files))

\* C6 as stated: a sync over a folder every entry of which is already ingested inserts
\* nothing, puts nothing, and ends completed with uploaded = 0, failed = 0 and
\* skipped = N, the number of entries the first run ingested.
C6_RerunSkipsEveryEntry ==
    \A r \in completed_runs :
        r.clean => /\ r.uploaded = 0 /\ r.failed = 0 /\ r.puts = 0
                   /\ r.skipped = EntryCount(DriveListing(jobs[r.job].folder))

\* C6 amended: skipped is the number of listed source files, a completed container
\* counting once whatever the number of its entries.
C6_RerunSkipsEverySource ==
    \A r \in completed_runs :
        r.clean => /\ r.uploaded = 0 /\ r.failed = 0 /\ r.puts = 0
                   /\ r.skipped = Len(DriveListing(jobs[r.job].folder))

C6_RerunOfContainerFolder ==
    \E r \in completed_runs : r.clean /\ jobs[r.job].folder = "f1"

(***************************************************************************)
(* Properties of the embedding worker.                                     *)
(***************************************************************************)
\* C7: with several embedding workers and the same id delivered more than once, the
\* embedding of a photo is written at most once.
C7_WrittenOnce == \A p \in PhotoIds : embedding_writes[p] <= 1

\* the part of C7 that holds: a worker that finds the embedding set writes nothing
C7_EmbeddedIsDropped ==
    [][\A w \in EmbedWorkers :
          (embed[w].pc = "load" /\ embed'[w] # embed[w]
           /\ photos[embed[w].photo].embedding # None)
             => (embed'[w].pc = "idle" /\ photos' = photos)]_vars

\* a turn of worker w that ends in one of the failures of C8
FailedTurn(w) ==
    \/ embed[w].pc = "fetch" /\ embed'[w].outcome = "fetch_failed"
    \/ /\ embed[w].pc = "embed" /\ embed'[w].pc = "idle"
       /\ \/ embed'[w].response.status # "ok"
          \/ ~embed'[w].response.is_list
          \/ embed'[w].response.len # _EXPECTED_EMBEDDING_SIZE

Droppable(p) == ~photos[p].exists \/ photos[p].embedding # None \/ photos[p].is_deleted

\* C9: a popped id whose photo is missing, already embedded or soft-deleted is dropped:
\* the worker goes back to pop without fetching, embedding, writing or re-enqueueing.
C9_DropsUnusable ==
    [][\A w \in EmbedWorkers :
          (embed[w].pc = "load" /\ embed'[w] # embed[w] /\ Droppable(embed[w].photo))
             => /\ embed'[w].pc = "idle"
                /\ embedding_jobs' = embedding_jobs
                /\ photos' = photos]_vars

\* the part of C9 that holds: missing and embedded photos are dropped
C9_DropsMissingOrEmbedded ==
    [][\A w \in EmbedWorkers :
          (/\ embed[w].pc = "load" /\ embed'[w] # embed[w]
           /\ (~photos[embed[w].photo].exists \/ photos[embed[w].photo].embedding # None))
             => /\ embed'[w].pc = "idle"
                /\ embedding_jobs' = embedding_jobs
                /\ photos' = photos]_vars

\* the id of photo p is on the queue or in the hands of a worker
InFlight(p) ==
    \/ \E i \in 1..Len(embedding_jobs) : embedding_jobs[i] = p
    \/ \E w \in EmbedWorkers : embed[w].pc # "idle" /\ embed[w].photo = p

\* C10: while the queue backend has had no outage, the id of every committed photo
\* without embedding is still on its way to a worker: none is lost between the insert
\* and the embedding write.
C10_NoIdLost ==
    outages = 0 =>
        \A p \in PhotoIds :
            (photos[p].exists /\ photos[p].embedding = None) => InFlight(p)

(***************************************************************************)
(* Properties of the People clusterer and of search.                       *)
(***************************************************************************)
PersonRows(rows) == {r \in rows : IsPersonTag(r.tag)}

\* C11: a turn of the embedding worker that writes the vector leaves the photo
\* with exactly one person tag, and its source is auto_people
C11_SuccessTagsPhoto ==
    [][\A w \in EmbedWorkers :
          (embed[w].pc = "embed" /\ embed'[w].outcome = "written")
          => LET rows == PersonRows(photo_tags'[embed[w].photo]) IN
             /\ Cardinality(rows) = 1
             /\ \A r \in rows : r.source = "auto_people"]_vars

\* the tag tables there are: the committed one and the one a reindex session sees
TagTables == {photo_tags} \cup (IF reindex.pc = "loop" THEN {reindex.view} ELSE {})

\* C12: whatever People calls were made, every photo carries at most one person: or
\* person_cluster: tag, and a photo without embedding carries no auto_people tag
C12_OnePersonTag ==
    \A tags \in TagTables, p \in PhotoIds :
       /\ Cardinality(PersonRows(tags[p])) <= 1
       /\ \A r \in tags[p] : r.source = "auto_people" => photos[p].embedding # None

\* a named photo and a clustered photo next to a photo that has no embedding
C12_NamedAndClustered ==
    \E p, q, n \in LibraryPhotos :
       /\ \E r \in photo_tags[p] : r.source = "manual_person"
       /\ \E r \in photo_tags[q] : r.source = "auto_people"
       /\ photos[n].embedding = None
       /\ photos[n].user = photos[q].user

\* the cosine of the embeddings of two photos
Cosine(p, q) == _cosine_similarity(Vectors[image_vector[p]], Vectors[image_vector[q]])

\* C19: the items of a search response are photos of the caller that are not
\* soft-deleted and have an embedding at the time of the query
C19_SearchOnlyOwnLiveEmbedded ==
    [][search_result' # search_result
       => \A p \in search_result'.items :
             /\ photos[p].exists
             /\ photos[p].user = search_result'.owner
             /\ ~photos[p].is_deleted
             /\ photos[p].embedding # None]_vars

\* a search found something while the library held an embedded photo of the other
\* owner and an embedded photo of the caller in the trash
C19_SearchAmongOthers ==
    /\ search_result.status = 200
    /\ search_result.items # {}
    /\ \E p, q \in LibraryPhotos :
          /\ photos[p].user # search_result.owner /\ photos[p].embedding # None
          /\ photos[q].user = search_result.owner /\ photos[q].embedding # None
          /\ photos[q].is_deleted

\* C20: a call of auto_assign_person_cluster gives the photo the tag of a candidate
\* with the greatest score if that score is at least 0.86 (equal included), and
\* otherwise a person_cluster tag that no photo carries
C20_ReuseIffAtThreshold ==
    [][(/\ reindex.pc = "loop" /\ reindex.todo # << >>
        /\ reindex'.pc = "loop" /\ reindex'.todo = Tail(reindex.todo))
       => LET p == Head(reindex.todo)
              candidates == {q \in PhotoIds \ {p} :
                               /\ photos[q].exists
                               /\ photos[q].user = photos[p].user
                               /\ ~photos[q].is_deleted
                               /\ photos[q].embedding # None
                               /\ PersonRows(reindex.view[q]) # {}}
              best == {q \in candidates :
                         \A c \in candidates : ~ScoreLess(Cosine(p, q), Cosine(p, c))}
              reusable == {q \in best : 86 * Cosine(p, q)[2] <= 100 * Cosine(p, q)[1]}
              carried == UNION {{r.tag : r \in reindex.view[q] \cup photo_tags[q]} :
                                  q \in PhotoIds}
              assigned == PersonRows(reindex'.view[p])
          IN /\ Cardinality(assigned) = 1
             /\ \A r \in assigned :
                   IF reusable # {}
                   THEN \E q \in reusable : r.tag \in {x.tag : x \in reindex.view[q]}
                   ELSE /\ r.tag.prefix = PERSON_CLUSTER_PREFIX
                        /\ r.tag \notin carried]_vars

\* two photos whose cosine is exactly 0.86 share a cluster tag, and the owner has no
\* third photo the tag could have come from
C20_ReusedAtThreshold ==
    \E p, q \in LibraryPhotos :
       /\ p # q
       /\ Cosine(p, q)[1] * 100 = 86 * Cosine(p, q)[2]
       /\ \E r \in photo_tags[p] :
             /\ r.source = "auto_people"
             /\ r.tag.prefix = PERSON_CLUSTER_PREFIX
             /\ r \in photo_tags[q]
       /\ \A n \in LibraryPhotos \ {p, q} : photos[n].user # photos[p].user

(***************************************************************************)
(* Properties of the upload ingestor.  Two files of kind "image" in one    *)
(* request are the same file.                                              *)
(***************************************************************************)
LivePhotoCount(table) ==
    Cardinality({p \in PhotoIds : table[p].exists /\ ~table[p].is_deleted})

\* C13: an upload of the same image twice in one request creates one Photo row and
\* answers uploaded = 1, skipped = 1
C13_DuplicateInBatchSkipped ==
    [][(uploads' # uploads /\ uploads'.files = <<"image", "image">>)
       => /\ uploads'.error = "none"
          /\ uploads'.uploaded = 1
          /\ uploads'.skipped = 1
          /\ LivePhotoCount(photos') = LivePhotoCount(photos) + 1]_vars

\* the request gets as far as upload_file: some image is not preceded by a file whose
\* thumbnail cannot be made
ReachesPut(files) ==
    \E i \in 1..Len(files) :
       /\ files[i] = "image"
       /\ \A k \in 1..(i - 1) : files[k] # "bad_thumbnail"

\* C16: an upload whose object-store put fails is answered 503 StorageUnavailable,
\* commits no Photo row of the batch and pushes no id onto embedding_jobs
C16_StorageFailureIs503 ==
    [][(uploads' # uploads /\ ~uploads'.storage_up /\ ReachesPut(uploads'.files))
       => /\ uploads'.error = "StorageUnavailable"
          /\ photos' = photos
          /\ embedding_jobs' = embedding_jobs]_vars

\* how many files of the request are of the kind
CountKind(files, kind) == Cardinality({i \in 1..Len(files) : files[i] = kind})

\* C21: in an upload of oversized files and images of exactly MAX_FILE_SIZE_BYTES, each
\* oversized file is counted in failed and creates no row and no embedding job, and
\* the images are ingested as if the oversized files were absent
C21_OversizedCountedOthersIngested ==
    [][(/\ uploads' # uploads
        /\ Range(uploads'.files) = {"too_large", "image"}
        /\ uploads'.storage_up)
       => /\ uploads'.error = "none"
          /\ uploads'.failed = CountKind(uploads'.files, "too_large")
          /\ uploads'.uploaded = CountKind(uploads'.files, "image")
          /\ LivePhotoCount(photos') =
                LivePhotoCount(photos) + CountKind(uploads'.files, "image")
          /\ Len(embedding_jobs') =
                Len(embedding_jobs) + CountKind(uploads'.files, "image")]_vars

\* the worker's run stands at a container that yields no accepted image entry
AtEmptyContainer(w) ==
    /\ run[w].pc \in {"loop", "zip_download", "zip_fill", "zip_mark"}
    /\ run[w].file_idx <= Len(Files(w))
    /\ Files(w)[run[w].file_idx].zip
    /\ Files(w)[run[w].file_idx].entries = << >>

\* C22: a run that unpacks a container without accepted entries counts it in failed
\* once, at the step that writes the container's marker row as completed, and a run
\* that finds that marker skips the container without downloading it
C22_EmptyContainerCountedAndMarked ==
    [][\A w \in SyncWorkers :
          LET r == run[w]
              marker == <<Files(w)[r.file_idx].id, ZIP_COMPLETION_MARKER>>
          IN (AtEmptyContainer(w) /\ run'[w] # r /\ run'[w].pc # "idle")
             => /\ (r.pc = "loop" /\ sync_files[marker] = "completed")
                   => /\ run'[w].pc = "loop"
                      /\ run'[w].file_idx = r.file_idx + 1
                      /\ run'[w].counters.skipped = r.counters.skipped + 1
                      /\ run'[w].counters.failed = r.counters.failed
                /\ (r.pc = "zip_mark")
                   => /\ run'[w].counters.failed = r.counters.failed + 1
                      /\ sync_files'[marker] = "completed"
                      /\ run'[w].file_idx = r.file_idx + 1
                /\ (r.pc \in {"zip_download", "zip_fill"} /\ run'[w].pc # "loop")
                   => run'[w].counters.failed = r.counters.failed]_vars

\* a later run skipped the container that an earlier run had counted and marked
C22_LaterRunSkipsEmptyContainer ==
    /\ sync_files[<<"z3", ZIP_COMPLETION_MARKER>>] = "completed"
    /\ \E r \in completed_runs :
          /\ jobs[r.job].folder = EmptyZipFolder
          /\ r.failed = 1
    /\ \E r \in completed_runs :
          /\ jobs[r.job].folder = EmptyZipFolder
          /\ r.skipped >= 1
          /\ r.failed = 0

\* C23: when the INSERT of a DriveSyncFile row violates the unique index because
\* another attempt has inserted and committed the row, the entry is counted in
\* skipped, not in failed, and the batch and the job go on
C23_UniqueViolationIsSkipped ==
    [][\A w \in SyncWorkers :
          (/\ run[w].pc = "blocked"
           /\ sync_files[run[w].blocked_on] # "none"
           /\ run'[w] # run[w]
           /\ orphaned' = orphaned)
          => /\ run'[w].job = run[w].job
             /\ run'[w].counters.failed = run[w].counters.failed
             /\ run'[w].counters.skipped = run[w].counters.skipped + 1
             /\ jobs'[run[w].job].status = "running"]_vars

\* the live photos of the user that POST /embedding/start selects
PendingPhotos ==
    {p \in PhotoIds : photos[p].exists /\ ~photos[p].is_deleted /\ photos[p].embedding = None}

C25_MagicBytesDecideFirst ==
    detected.called
    => /\ MagicType(detected.file_bytes) # ""
          => detected.result = MagicType(detected.file_bytes)
       /\ (/\ MagicType(detected.file_bytes) = ""
           /\ ~IsImageType(guess_type(detected.filename)))
          => detected.result = ""

(***************************************************************************)
(* Further properties of the sync job runner.                              *)
(***************************************************************************)
\* C14: a job whose row was set to cancelled while it runs aborts at its next batch
\* commit (and so pushes no further id and inserts no further Photo row)
C14_CancelledJobAbortsAtCommit ==
    [][\A w \in SyncWorkers :
          (/\ run[w].pc = "commit"
           /\ jobs[run[w].job].status = "cancelled"
           /\ run'[w] # run[w]
           /\ orphaned' = orphaned)
          => run'[w].pc = "idle"]_vars

\* C15: an error of the download of one plain image counts that entry as failed and
\* the job goes on with the next entry
C15_EntryErrorKeepsJobRunning ==
    [][\A w \in SyncWorkers :
          (/\ run[w].pc = "loop"
           /\ run[w].file_idx <= Len(Files(w))
           /\ ~Files(w)[run[w].file_idx].zip
           /\ faults' = faults + 1
           /\ orphaned' = orphaned
           /\ run'[w] # run[w])
          => /\ jobs'[run[w].job].status = "running"
             /\ run'[w].job = run[w].job
             /\ run'[w].counters.failed = run[w].counters.failed + 1]_vars

\* the step is a failed token refresh of worker w: the job leaves auth with the
\* message of line 662
RefreshFails(w) ==
    /\ run[w].pc = "auth"
    /\ run'[w] # run[w]
    /\ jobs'[run[w].job].last_error = "disconnected"

\* C17: a failed token refresh leaves the job failed with last_error set, sync
\* disabled with a last_error for the user, the id off the queue and no Photo or
\* DriveSyncFile row written; and while sync_enabled stays false no job is created
C17_RefreshFailureDisablesSync ==
    [][/\ \A w \in SyncWorkers :
             RefreshFails(w)
             => /\ jobs'[run[w].job].status = "failed"
                /\ jobs'[run[w].job].last_error # "none"
                /\ ~sync_state'.sync_enabled
                /\ sync_state'.last_error # "none"
                /\ drive_sync_jobs' = drive_sync_jobs
                /\ photos' = photos
                /\ sync_files' = sync_files
                /\ run'[w].pc = "idle"
       /\ (~sync_state.sync_enabled /\ ~sync_state'.sync_enabled)
             => /\ \A j \in JobIds : jobs[j].status = "none" => jobs'[j].status = "none"
                /\ Len(drive_sync_jobs') <= Len(drive_sync_jobs)]_vars

\* sync is disabled by the failed refresh of a job, a folder is selected, and the
\* fan-out could still insert a job row
C17_DisabledAfterRefreshFailure ==
    /\ ~sync_state.sync_enabled
    /\ sync_state.folder_id # ""
    /\ \E j \in JobIds : jobs[j].status = "failed" /\ jobs[j].last_error = "disconnected"
    /\ FreshJobIds # {}

\* C18: DriveSyncCheckpoint.last_batch_no of a job never decreases, over all the
\* attempts of the job
C18_CheckpointNeverDecreases ==
    [][\A j \in JobIds : checkpoint'[j] >= checkpoint[j]]_vars

(***************************************************************************)
(* Properties of the memory job.                                           *)
(***************************************************************************)
MemoriesOf(table, user, date) ==
    {i \in 1..Len(table) : table[i].user = user /\ table[i].memory_date = date}

\* C26: whatever runs of the job completed, there is at most one Memory row per
\* (owner, memory_date), and a run leaves the rows of other dates as they were
C26_OneMemoryPerOwnerAndDate ==
    [][/\ \A u \in Owners, d \in FirstDay..(FirstDay + MaxDays) :
             Cardinality(MemoriesOf(memories', u, d)) <= 1
       /\ SelectSeq(memories', LAMBDA m : m.memory_date # today)
             = SelectSeq(memories, LAMBDA m : m.memory_date # today)]_vars

\* the job ran twice on one day, the second time on a changed library, after a run on
\* the day before: the table holds one row of u1 for each of the two days
C26_RerunReplacedTodaysRow ==
    /\ memory_runs = MaxMemoryRuns
    /\ today = FirstDay + 1
    /\ photos[11].is_deleted
    /\ Cardinality(MemoriesOf(memories, "u1", FirstDay)) = 1
    /\ \E i \in MemoriesOf(memories, "u1", today) :
          /\ Len(memories[i].photo_ids) = 9
          /\ 11 \notin Range(memories[i].photo_ids)

\* the live photos of the user that were taken on today's month and day before `limit`
TakenOnThisDayBefore(user, limit) ==
    {p \in DOMAIN photos :
        /\ photos[p].exists
        /\ photos[p].user = user
        /\ ~photos[p].is_deleted
        /\ photos[p].taken_at # NoTime
        /\ photos[p].taken_at.day = today
        /\ Before(photos[p].taken_at, limit)}

\* the row of today the claim describes for a user and the photos S: the 10 most
\* recent in descending taken_at order, labelled with the age of the oldest
DescribedRow(table, user, S) ==
    \E i \in 1..Len(table) :
       LET m == table[i]
           earliest == CHOOSE y \in {photos[p].taken_at.year : p \in S} :
                          \A q \in S : photos[q].taken_at.year >= y
       IN /\ m.user = user
          /\ m.memory_date = today
          /\ Len(m.photo_ids) = Min(10, Cardinality(S))
          /\ Range(m.photo_ids) \subseteq S
          /\ \A a, b \in 1..Len(m.photo_ids) :
                a < b => Before(photos[m.photo_ids[b]].taken_at, photos[m.photo_ids[a]].taken_at)
          /\ \A p \in S \ Range(m.photo_ids), q \in Range(m.photo_ids) :
                Before(photos[p].taken_at, photos[q].taken_at)
          /\ m.label = ToString(Max(1, CurrentYear - earliest)) \o " years ago"

Older(table, p, q) ==
    \/ table[p].uploaded_at < table[q].uploaded_at
    \/ table[p].uploaded_at = table[q].uploaded_at /\ p < q

LiveOf(table, owner) ==
    {p \in DOMAIN table : table[p].exists /\ table[p].user = owner /\ ~table[p].is_deleted}

\* the live photos of the owner that share their hash with another live photo of theirs
InDuplicateGroup(table, owner) ==
    {p \in LiveOf(table, owner) :
        /\ table[p].phash # NoHash
        /\ \E q \in LiveOf(table, owner) \ {p} : table[q].phash = table[p].phash}

\* C28: after delete_all_duplicates no two live photos of the owner share a hash; of
\* each former group the newest by (uploaded_at, id) survives unchanged and the others
\* are hard-deleted, whether or not their objects could be deleted; every other row
\* is unchanged
C28_NewestOfEachGroupSurvives ==
    [][dedup_response' # dedup_response
       => LET owner == dedup_response'.owner
              group == InDuplicateGroup(photos, owner)
          IN /\ InDuplicateGroup(photos', owner) = {}
             /\ \A p \in group :
                   IF \E q \in group : photos[q].phash = photos[p].phash /\ Older(photos, p, q)
                   THEN ~photos'[p].exists
                   ELSE photos'[p] = photos[p]
             /\ \A p \in DOMAIN photos \ group : photos'[p] = photos[p]
             /\ dedup_response'.deleted =
                   Cardinality({p \in group : ~photos'[p].exists})]_vars

\* a call removed a row of u1 although its objects could not be deleted, and left a
\* soft-deleted photo of u1 and a photo of u2 that have the survivor's hash
C28_GroupReducedDespiteStorageFailure ==
    /\ dedup_response.owner = "u1"
    /\ dedup_response.deleted = 1
    /\ \E p \in objects : ~photos[p].exists
    /\ \E s \in LiveOf(photos, "u1") :
          /\ photos[s].phash = "h1"
          /\ \E q \in LiveOf(photos, "u2") : photos[q].phash = "h1"
          /\ \E d \in DOMAIN photos :
                /\ photos[d].exists
                /\ photos[d].is_deleted
                /\ photos[d].user = "u1"
                /\ photos[d].phash = "h1"

(***************************************************************************)
(* Properties of the photo listing.                                        *)
(***************************************************************************)
\* C29: paging with the returned cursor yields the owner's live photos in strictly
\* descending (uploaded_at, id) order, each once, all of them when no cursor is
\* returned; a cursor is returned exactly when the page holds limit items
C29_PagingVisitsEachLivePhotoOnce ==
    listing.pages > 0
    => /\ listing.status = 200
       /\ \A i, j \in 1..Len(listing.items) :
             i < j => Older(photos, listing.items[j], listing.items[i])
       /\ Range(listing.items) \subseteq LiveOf(photos, listing.owner)
       /\ listing.next_cursor = NoCursor
          => Range(listing.items) = LiveOf(photos, listing.owner)
       /\ listing.next_cursor # NoCursor <=> Len(listing.last_page) = listing.limit

\* the client got all three photos of u1 in two pages, the page boundary lying between
\* two photos uploaded at the same time
C29_TiedPhotosAcrossPages ==
    /\ listing.owner = "u1"
    /\ listing.limit = 2
    /\ listing.pages = 2
    /\ listing.next_cursor = NoCursor
    /\ Len(listing.items) = 3
    /\ photos[listing.items[2]].uploaded_at = photos[listing.items[3]].uploaded_at

(***************************************************************************)
(* Properties of the temp files of a sync run.                             *)
(***************************************************************************)
\* C30: when process_drive_sync_job returns, completed or failed, none of the temp
\* files its run created is left, and none exists outside its ZIP branch
C30_NoTempFileAfterReturn ==
    [][\A w \in SyncWorkers :
          /\ (run[w].pc # "idle" /\ run'[w].pc = "idle" /\ orphaned' = orphaned)
             => \A t \in temp_files' : t.worker # w
          /\ run'[w].pc \in {"idle", "auth", "list", "loop", "zip_download", "complete"}
             => \A t \in temp_files' : t.worker # w]_vars

\* a run that had unpacked a container and saved its entries failed at the commit, and
\* the worker is idle with no temp file on disk
C30_FailedInsideZipLeftNothing ==
    /\ run[1].pc = "idle"
    /\ temp_files = {}
    /\ jobs[1].status = "failed"
    /\ jobs[1].last_error = "exception"
    /\ jobs[2].status = "none"
    /\ sync_files[<<"a", NoEntry>>] = "completed"
    /\ sync_files[<<"z1", "x">>] = "none"
    /\ next_photo = 4

(***************************************************************************)
(* Batches and containers.                                                 *)
(***************************************************************************)
\* the step of worker w commits its pending batch (line 713 returned)
CommitsBatch(w) == run[w].pc = "commit" /\ run'[w].pc = run[w].resume

\* the step of worker w commits the completion marker of the container it is at
CommitsMarker(w) ==
    /\ run[w].pc = "zip_mark"
    /\ sync_files'[<<Files(w)[run[w].file_idx].id, ZIP_COMPLETION_MARKER>>] = "completed"

\* nothing in the batch was discovered before a ZIP entry of another file
OneContainer(batch) ==
    \A i, j \in 1..Len(batch) :
        (i < j /\ batch[j].entry # NoEntry) => batch[i].file = batch[j].file

\* C31: the pending batch is empty when the download of a ZIP container starts and
\* when its completion marker is written; the marker is committed only after every
\* entry of the container was committed in a batch; and no committed batch holds,
\* before an entry of a container, an entry of another container or a plain image.
C31_ContainerBatchesApart ==
    [][\A w \in SyncWorkers :
          /\ run'[w].pc = "zip_download" => run'[w].pending_batch = << >>
          /\ CommitsMarker(w) =>
                /\ run[w].pending_batch = << >>
                /\ run[w].zip_left = << >>
                /\ run[w].txn_files = EmptyTxn
                /\ \A e \in Range(Files(w)[run[w].file_idx].entries) :
                      sync_files[<<Files(w)[run[w].file_idx].id, e>>] # "none"
          /\ CommitsBatch(w) => OneContainer(run[w].pending_batch)]_vars

\* a run with batch_size 1 committed three batches, the plain image and each entry of
\* z4, and then the marker of z4
C31_MarkerAfterThreeBatches ==
    /\ run[1].pc = "loop"
    /\ run[1].job # NoJob
    /\ jobs[run[1].job].batch_size = 1
    /\ checkpoint[run[1].job] = 3
    /\ run[1].pending_batch = << >>
    /\ sync_files[<<"z4", ZIP_COMPLETION_MARKER>>] = "completed"

\* C32: an entry whose ingestion failed is attempted again by the next run over the
\* folder: no failed entry of a container lies behind the container's completion
\* marker, which makes every later run skip the container (lines 735-748).
C32_FailedEntryStaysReachable ==
    \A f \in AllFiles :
        f.zip => \A e \in Range(f.entries) :
                    ~ /\ sync_files[<<f.id, e>>] = "failed"
                      /\ IsZipAlreadyCompleted(f.id)

\* C33: in every state of a sync run the pending batch holds at most batch_size
\* descriptors, every committed batch holds between 1 and batch_size descriptors, and
\* the effective batch_size lies within 1..MAX_BATCH_SIZE.
C33_BatchWithinBatchSize ==
    [][\A w \in SyncWorkers :
          /\ run'[w].job # NoJob =>
                LET size == EffectiveBatchSize(jobs'[run'[w].job].batch_size) IN
                /\ size \in 1..MAX_BATCH_SIZE
                /\ Len(run'[w].pending_batch) <= size
          /\ CommitsBatch(w) =>
                Len(run[w].pending_batch)
                   \in 1..EffectiveBatchSize(jobs[run[w].job].batch_size)]_vars

\* the ids of the Photo rows in the open transaction of a running sync worker
OpenPhotoIds == {q.id : q \in UNION {Range(run[w].txn_photos) : w \in SyncWorkers}}

\* how often id p is on embedding_jobs
Pushed(p) == Cardinality({i \in 1..Len(embedding_jobs) : embedding_jobs[i] = p})

\* C34: the ids on embedding_jobs are exactly the ids of the committed Photo rows,
\* once each: no id of a row that was not committed is on the queue once the
\* transaction that pushed it has ended (no worker pops in this specification).
C34_PushedIffCommitted ==
    \A p \in PhotoIds :
        /\ photos[p].exists => Pushed(p) = 1
        /\ Pushed(p) > 0 => photos[p].exists \/ p \in OpenPhotoIds

\* C35: there is at most one sync job in {queued, running} per (owner, folder), after
\* any interleaving of enqueues, runs, failures and retries.
C35_OneActiveJobPerFolder ==
    \A u \in Users, f \in Folders : Cardinality(ActiveJobs(u, f)) <= 1

(***************************************************************************)
(* The grouping of a full reset.                                           *)
(***************************************************************************)
\* the loop of lines 1105-1109 run on `tags` over the photos `todo`
RECURSIVE AssignAll(_, _, _)
AssignAll(tags, todo, token) ==
    IF todo = << >> THEN tags
    ELSE LET assigned == auto_assign_person_cluster(tags, Head(todo), token) IN
         AssignAll(assigned.tags, Tail(todo),
                   IF assigned.minted THEN token + 1 ELSE token)

\* the photos a reindex of the owner goes through (lines 1092-1102)
Reindexed(owner) == {p \in LivePhotosOf(owner) : photos[p].embedding # None}

\* what a full reset gives on a library without any tag: it depends on the photos, their
\* embeddings and their order only
FreshGroups(owner) ==
    AssignAll([p \in PhotoIds |-> {}], Ascending(Reindexed(owner)), 1)

\* photos p and q carry the same person tag
SharePersonTag(tags, p, q) ==
    \E r \in PersonRows(tags[p]) : \E x \in PersonRows(tags[q]) : r.tag = x.tag

\* the step commits a reindex (line 1111)
CommitsReindex == reindex.pc = "loop" /\ reindex.todo = << >> /\ reindex'.pc = "idle"

LastN(s, n) == IF Len(s) > n THEN SubSeq(s, Len(s) - n + 1, Len(s)) ELSE s

\* C37: after every call of _set_progress or _append_failure the snapshot
\* of the user has a percentage between 0 and 100, no more processed files
\* than total files, and at most ten recent failures, which are the last
\* failures appended, oldest first.
C37_SnapshotWithinBounds ==
    \A u \in Users :
        LET progress == get_sync_progress(u)
        IN /\ progress.progress_percent \in 0..100
           /\ progress.processed_files <= progress.total_files
           /\ Len(progress.recent_failures) <= RecentFailuresKept
           /\ progress.recent_failures = LastN(failure_log[u], RecentFailuresKept)

\* eleven failures were appended, the first of which differs from the one
\* now at the head of the list, and the run is part-way through its files
C37_RingDroppedOldest ==
    \E u \in Users :
        LET progress == get_sync_progress(u)
        IN /\ Len(failure_log[u]) > RecentFailuresKept
           /\ Len(progress.recent_failures) = RecentFailuresKept
           /\ failure_log[u][1] # progress.recent_failures[1]
           /\ progress.processed_files > 0
           /\ progress.progress_percent \in 1..99

(***************************************************************************)
(* Properties of completed DriveSyncFile rows.                             *)
(***************************************************************************)
EntryRows == {k \in FileKeys : k[2] # ZIP_COMPLETION_MARKER}

\* the committed Photo rows imported from the file or container entry of row k
PhotosOf(table, k) ==
    {p \in PhotoIds : /\ table[p].exists
                      /\ table[p].source = "google_drive"
                      /\ table[p].file = k[1]
                      /\ table[p].source_id = IF k[2] # NoEntry THEN k[2] ELSE k[1]}

\* C38: a row of a file or container entry becomes completed in the
\* database only in the commit that also inserts the Photo row of that
\* entry, so every committed completed row has its Photo row, and a
\* completed row never changes to another state, whatever the runs raise,
\* catch or roll back.
C38_CompletedRowHasPhoto ==
    [][\A k \in EntryRows :
          /\ (sync_files[k] # "completed" /\ sync_files'[k] = "completed")
                => PhotosOf(photos', k) \ PhotosOf(photos, k) # {}
          /\ sync_files'[k] = "completed" => PhotosOf(photos', k) # {}
          /\ sync_files[k] = "completed" => sync_files'[k] = "completed"]_vars

\* a batch raised part-way inside a container and was caught: the session
\* holds a completed row whose Photo was never added, next to rows that
\* were committed with their photos
C38_CaughtBatchLeftRowWithoutPhoto ==
    \E w \in SyncWorkers, k \in EntryRows :
        /\ run[w].pc = "loop"
        /\ ~InZipTry(run[w])
        /\ run[w].txn_files[k] = "completed"
        /\ sync_files[k] # "completed"
        /\ \A n \in 1..Len(run[w].txn_photos) : run[w].txn_photos[n].file # k[1]
        /\ \E c \in EntryRows : sync_files[c] = "completed"

====
